---- MODULE Spec2Model ----
(***************************************************************************)
(* A model of the stockburn data pipeline.                                 *)
(*                                                                         *)
(* Part 1: the multi-stream batcher, StockLSTM::make_batches_impl          *)
(* (src/src/lstm/mod.rs), together with Tick::push_tick, Tick::pred and    *)
(* Prediction::push_pred (src/src/data/mod.rs).                            *)
(*                                                                         *)
(* Part 2: the exponential scaler, ExpScaler and TickExpScaler             *)
(* (src/src/data/scale/mod.rs).                                            *)
(*                                                                         *)
(* Part 3: the trading calendar, NASDAQDays and NASDAQMinutes              *)
(* (src/src/data/fake.rs).                                                 *)
(*                                                                         *)
(* Part 4: the tick generator TickGen with its volume generator VolumeGen  *)
(* (src/src/data/fake.rs).                                                 *)
(*                                                                         *)
(* Part 5: reading and writing files of ticks, read_ticks and write_ticks  *)
(* (src/src/data/polygon/mod.rs).                                          *)
(*                                                                         *)
(* Each part has a specification of its own; the variables of the other    *)
(* parts are None in it and never change.                                  *)
(*                                                                         *)
(* Rust indices are 0-based, TLA+ sequences are 1-based: stream i of the   *)
(* model is tick_iterators[i-1] of the source, row r of the model is       *)
(* _row = r-1 of the source.                                               *)
(***************************************************************************)
EXTENDS Integers, Sequences, FiniteSets, TLC

(***************************************************************************)
(* Bounds of the model.                                                    *)
(***************************************************************************)
\* the tick streams of one run hold at most MaxTicks ticks in total
MaxTicks == 4
\* a call fills at most MaxRows = batch_size * sequence_length rows
MaxRows == 3
\* the training loop makes at most MaxCalls calls on the same cursors: enough
\* to drain every stream one tick per call and to see None afterwards
MaxCalls == MaxTicks + 2

\* the timestamps a tick can carry (minutes after some origin)
Stamps == 0..2

\* the numbers of tick iterators, and the values of the field stocks
StockCounts == 0..2

\* the values of the field additional_inputs
AdditionalCounts == {0, 1}

\* the values of the field date_inputs, and the numbers of values a
\* caller-supplied time function appends per call
DateCounts == {0, 1}

\* the batch_size and sequence_length arguments of the calls
BatchSizes == 0..MaxRows

SeqLengths == {1, 2}

\* the auxiliary iterators a call can be given: one that yields nothing, and
\* one that yields a slice of two values, a slice of one value, an empty
\* slice, and then ends
AdditionalIterators == { <<>>, << <<91, 92>>, <<93>>, <<>> >> }

(***************************************************************************)
(* Program constants.                                                      *)
(***************************************************************************)
\* Tick::NN_FIELDS
TickNNFields == 7
\* Prediction::NN_FIELDS
PredictionNNFields == 2
\* an f32 has a 24-bit significand: every integer up to 2^24 is an f32
F32ExactLimit == 4096 * 4096

(***************************************************************************)
(* Option<T>: None is the empty sequence, Some(x) is <<x>>.                *)
(***************************************************************************)
None == <<>>

Some(x) == <<x>>

(***************************************************************************)
(* Numeric helpers.                                                        *)
(***************************************************************************)
Abs(x) == IF x < 0 THEN -x ELSE x

\* the least element of a non-empty set of integers (Iterator::min)
SetMin(S) == CHOOSE x \in S : \A y \in S : x <= y

\* std::iter::repeat(0.0).take(n)
Zeros(n) == [k \in 1..n |-> 0]

(***************************************************************************)
(* NumCast::from(x): f64 -> f32 on an integral value x, |x| < 2^25.        *)
(* Values below 2^24 are exact; between 2^24 and 2^25 the f32 grid is the  *)
(* even numbers, and a tie rounds to the even significand.                 *)
(***************************************************************************)
CastF32(x) ==
  LET a == Abs(x)
      r == IF a <= F32ExactLimit \/ a % 2 = 0 THEN a
           ELSE IF ((a - 1) \div 2) % 2 = 0 THEN a - 1 ELSE a + 1
  IN IF x < 0 THEN -r ELSE r

(***************************************************************************)
(* Ticks.  The tick at position j of stream i carries field values that    *)
(* are distinct from those of every other tick and never zero; its volume  *)
(* lies above 2^24, where the cast to f32 rounds.                          *)
(***************************************************************************)
MkTick(i, j, t) ==
  LET s == 10 * (10 * i + j)
  IN [t |-> t, o |-> s + 2, h |-> s + 4, l |-> s + 1, c |-> s + 3,
      v |-> F32ExactLimit + (10 * i + j), vw |-> s + 5, n |-> s + 6]

\* Tick::push_tick: the seven values appended, in the order of the pushes
push_tick(tick) ==
  << CastF32(tick.o), CastF32(tick.h), CastF32(tick.l), CastF32(tick.c),
     CastF32(tick.v), CastF32(tick.vw), CastF32(tick.n) >>

\* Tick::pred
pred(tick) == [c |-> tick.c, v |-> tick.v]

\* a variant of push_pred that pushes the volume before the close
push_pred_swapped(p) == << CastF32(p.v), CastF32(p.c) >>

\* Prediction::push_pred
push_pred(p) == << CastF32(p.c), CastF32(p.v) >>

(***************************************************************************)
(* The inputs: every way to hand a number n in StockCounts of streams, of  *)
(* at most MaxTicks ticks in total, with timestamps in Stamps (in any      *)
(* order, with gaps and repetitions), to the batcher.                      *)
(***************************************************************************)
RECURSIVE StampStreams(_, _)
StampStreams(n, budget) ==
  IF n = 0 THEN { <<>> }
  ELSE UNION { { Append(rest, s) : rest \in StampStreams(n - 1, budget - k),
                                   s \in [1..k -> Stamps] } : k \in 0..budget }

MkIterators(ss) ==
  [i \in 1..Len(ss) |-> [j \in 1..Len(ss[i]) |-> MkTick(i, j, ss[i][j])]]

TickIteratorInputs ==
  UNION { { MkIterators(ss) : ss \in StampStreams(n, MaxTicks) } : n \in StockCounts }

(***************************************************************************)
(* State.  A run is the loop of run_network (examples/stockburn_a.rs):     *)
(* one model, one slice of tick iterators, and make_batches called again   *)
(* and again with the same time function, batch_size and sequence_length.  *)
(***************************************************************************)
VARIABLES
  \* the StockLSTM fields
  additional_inputs, date_inputs, stocks,
  \* tick_iterators[i]: the ticks stream i has not yet yielded (Peekable<I>)
  tick_iterators,
  \* the arguments of the calls
  additional_arg,   \* additional: the auxiliary iterator, as handed in
  time_width,       \* time_func: the number of values it appends per call
  batch_size, sequence_length,
  \* the locals of the last call, as it left them
  additional,       \* what is left of the auxiliary iterator
  input, output,    \* the flat Vec<f32> buffers
  curr_t,
  result,           \* what the last call returned
  \* history
  calls,            \* the number of calls made so far
  entry,            \* tick_iterators at the entry of the last call
  time_args,        \* the clock values handed to time_func, in call order
  scan_from,        \* per row: tick_iterators right before the input scan
  out_t,            \* per row: curr_t when the output row was written
  out_from,         \* per row: tick_iterators when the output row was written
  first_entry,      \* << tick_iterators as the run was handed them >>, or
                    \* None in the runs that do not keep them
  tick_slots        \* per stream: the input slots that were not left zero,
                    \* as read from the input buffers of all the calls so far
                    \* (kept with first_entry)

\* the variables of the batcher
batcher_vars == << additional_inputs, date_inputs, stocks, tick_iterators,
                   additional_arg, time_width, batch_size, sequence_length,
                   additional, input, output, curr_t, result,
                   calls, entry, time_args, scan_from, out_t, out_from,
                   first_entry, tick_slots >>

VARIABLES
  \* an ExpScaler
  exp_scaler,       \* its fields average, average_decay, range, range_decay
  exp_call,         \* history: the last call on it, with self as it was
  exp_updates       \* history: the number of update calls made on it

exp_vars == << exp_scaler, exp_call, exp_updates >>

\* no ExpScaler exists in this run
ExpScalerAbsent ==
  /\ exp_scaler = None
  /\ exp_call = None
  /\ exp_updates = 0

VARIABLES
  \* a TickExpScaler
  tick_scaler,      \* its fields t, o, h, l, c, v, vw, n
  tick_call,        \* history: the last call on it, with self as it was
  tick_calls        \* history: the number of tick and update calls made

tick_scaler_vars == << tick_scaler, tick_call, tick_calls >>

\* no TickExpScaler exists in this run
TickScalerAbsent ==
  /\ tick_scaler = None
  /\ tick_call = None
  /\ tick_calls = 0

VARIABLES
  \* a NASDAQDays iterator
  nasdaq_days,      \* the tuple struct: << the date it looks at next >>
  days_from,        \* history: << the date it was made with >>
  days_ret,         \* history: what the last next() returned
  days_yielded,     \* history: the dates yielded so far, in order
  \* a NASDAQMinutes iterator
  nasdaq_minutes,   \* the tuple struct: << the time it looks at next >>
  minutes_date,     \* history: << the date it was made for >>
  minutes_ret,      \* history: what the last next() returned
  minutes_prev,     \* history: what the next() before the last returned
  minutes_count,    \* history: the number of timestamps yielded so far
  minutes_idle      \* history: the number of calls that returned None

calendar_vars == << nasdaq_days, days_from, days_ret, days_yielded,
                    nasdaq_minutes, minutes_date, minutes_ret, minutes_prev,
                    minutes_count, minutes_idle >>

\* no NASDAQDays and no NASDAQMinutes iterator exists in this run
CalendarAbsent ==
  /\ nasdaq_days = None
  /\ days_from = None
  /\ days_ret = None
  /\ days_yielded = <<>>
  /\ nasdaq_minutes = None
  /\ minutes_date = None
  /\ minutes_ret = None
  /\ minutes_prev = None
  /\ minutes_count = 0
  /\ minutes_idle = 0

VARIABLES
  \* a TickGen
  tick_gen,         \* its fields time_gen (the timestamps to come) and close
  gen_from,         \* history: << the timestamps of time_gen at the start >>
  gen_call,         \* history: the last call of next: the TickGen before it,
                    \* the samples drawn, what it returned
  gen_stamps,       \* history: the t of the ticks yielded so far, in order
  gen_calls,        \* history: the number of calls of next
  gen_panicked      \* a call of next has panicked

tick_gen_vars == << tick_gen, gen_from, gen_call, gen_stamps, gen_calls,
                    gen_panicked >>

\* no TickGen exists in this run
TickGenAbsent ==
  /\ tick_gen = None
  /\ gen_from = None
  /\ gen_call = None
  /\ gen_stamps = <<>>
  /\ gen_calls = 0
  /\ gen_panicked = FALSE

VARIABLES
  \* a file of ticks
  polygon_file,     \* << its rows >>, each row a sequence of cells (strings)
  polygon_src,      \* history: << the ticks write_ticks wrote it from >>
  polygon_call      \* history: the last call of read_ticks or write_ticks

polygon_vars == << polygon_file, polygon_src, polygon_call >>

\* no file exists in this run
PolygonAbsent ==
  /\ polygon_file = None
  /\ polygon_src = None
  /\ polygon_call = None

vars == << batcher_vars, exp_vars, tick_scaler_vars, calendar_vars,
           tick_gen_vars, polygon_vars >>

desc == << additional_inputs, date_inputs, stocks >>

args == << additional_arg, time_width, batch_size, sequence_length >>

NoResult == [kind |-> "none", input |-> [shape |-> <<>>, data |-> <<>>],
             output |-> [shape |-> <<>>, data |-> <<>>]]

Init ==
  /\ additional_inputs \in AdditionalCounts
  /\ date_inputs \in DateCounts
  /\ stocks \in StockCounts
  /\ tick_iterators \in TickIteratorInputs
  /\ additional_arg \in AdditionalIterators
  /\ time_width \in DateCounts
  /\ batch_size \in BatchSizes
  /\ sequence_length \in SeqLengths
  /\ batch_size * sequence_length <= MaxRows
  /\ additional = <<>>
  /\ input = <<>>
  /\ output = <<>>
  /\ curr_t = 0
  /\ result = NoResult
  /\ calls = 0
  /\ entry = tick_iterators
  /\ time_args = <<>>
  /\ scan_from = <<>>
  /\ out_t = <<>>
  /\ out_from = <<>>
  /\ first_entry = None
  /\ tick_slots = <<>>
  /\ ExpScalerAbsent
  /\ TickScalerAbsent
  /\ CalendarAbsent
  /\ TickGenAbsent
  /\ PolygonAbsent

(***************************************************************************)
(* make_batches_impl.                                                      *)
(***************************************************************************)
\* a variant of StockCountOk that accepts fewer tick iterators than stocks
StockCountAtMost(its, n) == Len(its) <= n

\* Step 1: the assertion on the number of tick iterators
StockCountOk(its, n) == Len(its) = n

\* Step 2: the sizes
rows == batch_size * sequence_length

input_features ==
  Len(tick_iterators) * TickNNFields + additional_inputs + date_inputs

output_features == Len(tick_iterators) * PredictionNNFields

\* Step 3: the timestamps the streams would yield next (filter_map over peek)
NextStamps(its) ==
  { Head(its[i]).t : i \in { k \in 1..Len(its) : its[k] # <<>> } }

\* a variant of FirstClock that starts the clock at 0 when every stream is
\* exhausted
FirstClockOrZero(its) ==
  IF NextStamps(its) = {} THEN Some(0) ELSE Some(SetMin(NextStamps(its)))

\* a variant of FirstClock that starts the clock at the latest of them
FirstClockLatest(its) ==
  IF NextStamps(its) = {} THEN None
  ELSE Some(CHOOSE x \in NextStamps(its) : \A y \in NextStamps(its) : x >= y)

\* Step 3: .min() of them, None when every stream is exhausted
FirstClock(its) ==
  IF NextStamps(its) = {} THEN None ELSE Some(SetMin(NextStamps(its)))

\* the caller-supplied time function: appends w values made from the clock
\* value it is given
time_func(w, t) == [k \in 1..w |-> 1000 + t]

\* a variant of AdditionalRow that does not pad a short slice
AdditionalRowNoFill(next, width) ==
  IF next # None
  THEN LET slice == next[1]
           truncate_additional ==
             IF Len(slice) < width THEN Len(slice) ELSE width
       IN SubSeq(slice, 1, truncate_additional)
  ELSE Zeros(width)

\* a variant of AdditionalRow that keeps the last values of a long slice
AdditionalRowLastValues(next, width) ==
  IF next # None
  THEN LET slice == next[1]
           truncate_additional ==
             IF Len(slice) < width THEN Len(slice) ELSE width
           additional_fill == width - truncate_additional
       IN SubSeq(slice, Len(slice) - truncate_additional + 1, Len(slice))
            \o Zeros(additional_fill)
  ELSE Zeros(width)

\* Step 4.a: the values written for one row, given what the auxiliary
\* iterator yields (None when it is exhausted)
AdditionalRow(next, width) ==
  IF next # None
  THEN LET slice == next[1]
           truncate_additional ==
             IF Len(slice) < width THEN Len(slice) ELSE width
           additional_fill == width - truncate_additional
       IN SubSeq(slice, 1, truncate_additional) \o Zeros(additional_fill)
  ELSE Zeros(width)

\* a variant of InputHit that also takes a tick earlier than the clock
InputHitEarly(ticks, t) == ticks # <<>> /\ Head(ticks).t <= t

\* Step 4.c: does the stream's next tick carry the clock's timestamp?
InputHit(ticks, t) == ticks # <<>> /\ Head(ticks).t = t

\* a variant of UpdateMin that keeps the last timestamp seen, not the least
UpdateMinLast(mt, ticks) ==
  IF ticks # <<>> THEN Some(Head(ticks).t) ELSE mt

\* Step 4.c: min_t after a stream was advanced to ticks
UpdateMin(mt, ticks) ==
  IF ticks # <<>>
  THEN IF mt # None
       THEN IF Head(ticks).t < mt[1] THEN Some(Head(ticks).t) ELSE mt
       ELSE Some(Head(ticks).t)
  ELSE mt

\* a variant of InputSlot that writes nothing for an exhausted stream
InputSlotNoEmptyFill(ticks, t) ==
  IF ticks # <<>>
  THEN IF InputHit(ticks, t)
       THEN push_tick(Head(ticks))
       ELSE Zeros(TickNNFields)
  ELSE <<>>

\* Step 4.c: what one stream appends to the input row
InputSlot(ticks, t) ==
  IF ticks # <<>>
  THEN IF InputHit(ticks, t)
       THEN push_tick(Head(ticks))
       ELSE Zeros(TickNNFields)
  ELSE Zeros(TickNNFields)

\* a variant of InputAdvance that advances a stream whatever its timestamp
InputAdvanceAny(ticks, t) == IF ticks # <<>> THEN Tail(ticks) ELSE ticks

\* a variant of InputAdvance that leaves the stream where it is
InputAdvanceNever(ticks, t) == ticks

\* Step 4.c: the stream after its turn in the input scan
InputAdvance(ticks, t) == IF InputHit(ticks, t) THEN Tail(ticks) ELSE ticks

\* Step 4.c: the loop over the streams, from stream i on
RECURSIVE ScanInputFrom(_, _, _, _, _)
ScanInputFrom(its, t, i, buf, mt) ==
  IF i > Len(its)
  THEN [tick_iterators |-> its, input |-> buf, min_t |-> mt]
  ELSE LET ticks == its[i]
           after == InputAdvance(ticks, t)
       IN ScanInputFrom([its EXCEPT ![i] = after], t, i + 1,
                        buf \o InputSlot(ticks, t),
                        IF InputHit(ticks, t) THEN UpdateMin(mt, after) ELSE mt)

\* a variant of NextClock that resets the clock when no stream waits
NextClockOrReset(t, mt) == IF mt # None THEN mt[1] ELSE 0

\* a variant of NextClock that moves the clock on by one minute when no
\* stream waits
NextClockTick(t, mt) == IF mt # None THEN mt[1] ELSE t + 1

\* Step 4.d: the clock after the scan
NextClock(t, mt) == IF mt # None THEN mt[1] ELSE t

\* a variant of OutputHit that also takes a tick later than the clock
OutputHitLate(ticks, t) == ticks # <<>> /\ Head(ticks).t >= t

\* Step 4.e: does the stream's next tick carry the clock's timestamp?
OutputHit(ticks, t) == ticks # <<>> /\ Head(ticks).t = t

\* Step 4.e: what one stream appends to the output row
OutputSlot(ticks, t) ==
  IF OutputHit(ticks, t)
  THEN push_pred(pred(Head(ticks)))
  ELSE Zeros(PredictionNNFields)

\* a variant of ScanOutputFrom that appends the slots of the streams from the
\* last stream to stream i
RECURSIVE ScanOutputBackwards(_, _, _, _)
ScanOutputBackwards(its, t, i, buf) ==
  IF i > Len(its) THEN buf
  ELSE ScanOutputBackwards(its, t, i + 1, buf) \o OutputSlot(its[i], t)

\* Step 4.e: the loop over the streams, from stream i on
RECURSIVE ScanOutputFrom(_, _, _, _)
ScanOutputFrom(its, t, i, buf) ==
  IF i > Len(its) THEN buf
  ELSE ScanOutputFrom(its, t, i + 1, buf \o OutputSlot(its[i], t))

\* Step 4: one pass of the loop body over the locals st of the call
RowBody(st) ==
  LET next == IF st.additional # <<>> THEN Some(Head(st.additional)) ELSE None
      with_additional == st.input \o AdditionalRow(next, additional_inputs)
      with_time == with_additional \o time_func(time_width, st.curr_t)
      scan == ScanInputFrom(st.tick_iterators, st.curr_t, 1, with_time, None)
      t == NextClock(st.curr_t, scan.min_t)
  IN [tick_iterators |-> scan.tick_iterators,
      additional |-> IF st.additional # <<>> THEN Tail(st.additional)
                     ELSE st.additional,
      input |-> scan.input,
      output |-> ScanOutputFrom(scan.tick_iterators, t, 1, st.output),
      curr_t |-> t,
      time_args |-> Append(st.time_args, st.curr_t),
      scan_from |-> Append(st.scan_from, st.tick_iterators),
      out_t |-> Append(st.out_t, t),
      out_from |-> Append(st.out_from, scan.tick_iterators)]

\* Step 4: for _row in 0..n
RECURSIVE FillRows(_, _)
FillRows(st, n) == IF n = 0 THEN st ELSE FillRows(RowBody(st), n - 1)

\* Step 5: Tensor::from(&v[..]).view(shape); view panics when the number of
\* elements is not the product of the shape
ViewOk(v, shape) == Len(v) = shape[1] * shape[2] * shape[3]

InputShape == << batch_size, sequence_length, input_features >>

OutputShape == << batch_size, sequence_length, output_features >>

\* the locals of a call before its first row
Locals(its, aux, t) ==
  [tick_iterators |-> its, additional |-> aux, input |-> <<>>,
   output |-> <<>>, curr_t |-> t, time_args |-> <<>>, scan_from |-> <<>>,
   out_t |-> <<>>, out_from |-> <<>>]

\* the outcome of one call: the locals as the call leaves them, and what it
\* returns
Outcome(its, aux) ==
  IF ~StockCountOk(its, stocks)
  THEN [st |-> Locals(its, aux, 0), kind |-> "panic"]
  ELSE IF FirstClock(its) = None
  THEN [st |-> Locals(its, aux, 0), kind |-> "None"]
  ELSE LET st == FillRows(Locals(its, aux, FirstClock(its)[1]), rows)
       IN [st |-> st,
           kind |-> IF ViewOk(st.input, InputShape)
                       /\ ViewOk(st.output, OutputShape)
                    THEN "Some" ELSE "panic"]

\* the slots of stream i, of the n streams of a call, in the rows of the flat
\* input buffer buf that hold anything but zeros
NonZeroSlots(buf, i, n) ==
  LET width == additional_inputs + time_width + TickNNFields * n
      base == additional_inputs + time_width + TickNNFields * (i - 1)
      slot(r) == SubSeq(buf, (r - 1) * width + base + 1,
                        (r - 1) * width + base + TickNNFields)
  IN SelectSeq([r \in 1..(Len(buf) \div width) |-> slot(r)],
               LAMBDA s : s # Zeros(TickNNFields))

\* one call of make_batches by the loop; a panic ends the run
MakeBatches ==
  /\ result.kind # "panic"
  /\ calls < MaxCalls
  /\ \E o \in { Outcome(tick_iterators, additional_arg) } :
        /\ tick_iterators' = o.st.tick_iterators
        /\ additional' = o.st.additional
        /\ input' = o.st.input
        /\ output' = o.st.output
        /\ curr_t' = o.st.curr_t
        /\ time_args' = o.st.time_args
        /\ scan_from' = o.st.scan_from
        /\ out_t' = o.st.out_t
        /\ out_from' = o.st.out_from
        /\ result' =
             IF o.kind = "Some"
             THEN [kind |-> "Some",
                   input |-> [shape |-> InputShape, data |-> o.st.input],
                   output |-> [shape |-> OutputShape, data |-> o.st.output]]
             ELSE [NoResult EXCEPT !.kind = o.kind]
        /\ tick_slots' =
             IF first_entry = None THEN tick_slots
             ELSE [i \in 1..Len(tick_iterators) |->
                     tick_slots[i] \o NonZeroSlots(o.st.input, i,
                                                  Len(tick_iterators))]
  /\ calls' = calls + 1
  /\ entry' = tick_iterators
  /\ UNCHANGED << desc, args, first_entry >>
  /\ UNCHANGED << exp_vars, tick_scaler_vars, calendar_vars, tick_gen_vars,
                  polygon_vars >>

\* StockLSTMDesc::build: the widths it configures, inputs for the LSTM layer
\* (nn::lstm) and outputs for the linear layer (nn::linear), and the fields
\* of the StockLSTM it returns
StockLSTMDesc_build(self) ==
  LET inputs == self.additional_inputs + self.stocks * TickNNFields
  IN [stocks |-> self.stocks,
      additional_inputs |-> self.additional_inputs,
      date_inputs |-> self.date_inputs,
      lstm_layer |-> [inputs |-> inputs],
      linear_layer |-> [outputs |-> self.stocks * PredictionNNFields]]

Next == MakeBatches

Spec == Init /\ [][Next]_vars

\* the runs of the loop of run_network: the model is built for the streams it
\* is handed and for the time function it is called with, and the run keeps
\* the streams as handed in and the input slots written
InitLoop ==
  /\ additional_inputs \in AdditionalCounts
  /\ date_inputs \in DateCounts
  /\ tick_iterators \in TickIteratorInputs
  /\ stocks = Len(tick_iterators)
  /\ additional_arg \in AdditionalIterators
  /\ time_width = date_inputs
  /\ batch_size \in BatchSizes
  /\ sequence_length \in SeqLengths
  /\ batch_size * sequence_length <= MaxRows
  /\ additional = <<>>
  /\ input = <<>>
  /\ output = <<>>
  /\ curr_t = 0
  /\ result = NoResult
  /\ calls = 0
  /\ entry = tick_iterators
  /\ time_args = <<>>
  /\ scan_from = <<>>
  /\ out_t = <<>>
  /\ out_from = <<>>
  /\ first_entry = << tick_iterators >>
  /\ tick_slots = [i \in 1..Len(tick_iterators) |-> <<>>]
  /\ ExpScalerAbsent
  /\ TickScalerAbsent
  /\ CalendarAbsent
  /\ TickGenAbsent
  /\ PolygonAbsent

SpecLoop == InitLoop /\ [][Next]_vars

(***************************************************************************)
(* Reading the buffers and the history of the last call.                   *)
(***************************************************************************)
\* the number of values one input row holds as written
RowWidth ==
  additional_inputs + time_width + TickNNFields * Len(tick_iterators)

\* where the stream slots of input row r begin
SlotBase(r) == (r - 1) * RowWidth + additional_inputs + time_width

\* the values v[a..b], with -1 (a value the batcher never writes) where the
\* buffer has no such position
Slice(v, a, b) ==
  [k \in 1..(b - a + 1) |-> IF a + k - 1 <= Len(v) THEN v[a + k - 1] ELSE -1]

\* the slot of stream i in input row r
InSlot(r, i) ==
  Slice(input, SlotBase(r) + TickNNFields * (i - 1) + 1,
        SlotBase(r) + TickNNFields * i)

\* the slot of stream i in output row r
OutSlot(r, i) ==
  Slice(output, (r - 1) * output_features + PredictionNNFields * (i - 1) + 1,
        (r - 1) * output_features + PredictionNNFields * i)

Streams == 1..Len(tick_iterators)

\* the rows the last call wrote
Rows == 1..Len(out_t)

\* the stream's next tick exists and carries timestamp t
HeadAt(ticks, t) == ticks # <<>> /\ Head(ticks).t = t

Exhausted(its) == \A i \in 1..Len(its) : its[i] = <<>>

NonDecreasing(ticks) ==
  \A j \in 1..(Len(ticks) - 1) : ticks[j].t <= ticks[j + 1].t

AllNonDecreasing(its) == \A i \in 1..Len(its) : NonDecreasing(its[i])

\* the last call passed the assertion and the first-row check
CallRan == calls > 0 /\ Len(entry) = stocks /\ ~Exhausted(entry)

(***************************************************************************)
(* C1. With K streams and K = stocks, A = additional_inputs and            *)
(* D = date_inputs: a call that returns Some returns an input tensor of    *)
(* shape (batch_size, sequence_length, A + D + 7K) over exactly            *)
(* batch_size * sequence_length * (A + D + 7K) values and an output tensor *)
(* of shape (batch_size, sequence_length, 2K) over exactly                 *)
(* batch_size * sequence_length * 2K values; and when the time function    *)
(* appends exactly D values per call, the buffers a call fills have        *)
(* exactly these sizes, whatever the streams hold.                         *)
(***************************************************************************)
C1_BatchShape ==
  LET K == stocks
      n == batch_size * sequence_length
      fin == additional_inputs + date_inputs + 7 * K
      fout == 2 * K
  IN /\ result.kind = "Some" =>
          /\ result.input.shape = << batch_size, sequence_length, fin >>
          /\ Len(result.input.data) = n * fin
          /\ result.output.shape = << batch_size, sequence_length, fout >>
          /\ Len(result.output.data) = n * fout
     /\ (CallRan /\ time_width = date_inputs) =>
          /\ Len(input) = n * fin
          /\ Len(output) = n * fout

C1_Witness ==
  /\ result.kind = "Some"
  /\ batch_size * sequence_length = 3
  /\ stocks = 2
  /\ additional_inputs = 1
  /\ date_inputs = 1
  /\ \E r \in Rows, i \in Streams : InSlot(r, i) = Zeros(TickNNFields)
  /\ \E r \in Rows, i \in Streams : InSlot(r, i) # Zeros(TickNNFields)

(***************************************************************************)
(* C2. For a call with as many tick iterators as stocks: the call returns  *)
(* None if and only if every stream was exhausted when it was made; a call *)
(* that returns None has advanced no stream, consumed no element of the    *)
(* auxiliary iterator and never called the time function; and a call made  *)
(* while some stream has a next tick (with a time function that appends    *)
(* date_inputs values) returns Some.                                       *)
(***************************************************************************)
C2_NoneIffExhausted ==
  (calls > 0 /\ Len(entry) = stocks) =>
     /\ result.kind = "None" <=> Exhausted(entry)
     /\ result.kind = "None" =>
          /\ tick_iterators = entry
          /\ additional = additional_arg
          /\ time_args = <<>>
     /\ (~Exhausted(entry) /\ time_width = date_inputs) =>
          result.kind = "Some"

\* the loop's last call: None, after calls that drained two streams
C2_Witness ==
  /\ result.kind = "None"
  /\ stocks = 2
  /\ Len(tick_iterators) = 2
  /\ calls = 3
  /\ batch_size * sequence_length > 0

(***************************************************************************)
(* C3. A call whose number of tick iterators differs from stocks panics:   *)
(* it returns no batch, advances no stream, consumes no element of the     *)
(* auxiliary iterator and never calls the time function.                   *)
(***************************************************************************)
C3_MismatchPanics ==
  (calls > 0 /\ Len(entry) # stocks) =>
     /\ result.kind = "panic"
     /\ tick_iterators = entry
     /\ additional = additional_arg
     /\ time_args = <<>>
     /\ input = <<>>
     /\ output = <<>>

C3_Witness ==
  /\ calls > 0
  /\ result.kind = "panic"
  /\ Len(tick_iterators) # stocks
  /\ ~Exhausted(tick_iterators)
  /\ batch_size * sequence_length > 0
  /\ time_args = <<>>

(***************************************************************************)
(* C4 (as amended).  In every row, a stream whose next tick does not carry *)
(* the clock value at which the row's inputs are written (or which is      *)
(* exhausted) contributes exactly 7 zero input fields to that row; and a   *)
(* stream whose next tick does not carry the clock value after that row's  *)
(* clock advance (or which is exhausted) contributes exactly 2 zero output *)
(* fields to that row.                                                     *)
(***************************************************************************)
C4_ZeroFill ==
  \A r \in Rows : \A i \in Streams :
     /\ ~HeadAt(scan_from[r][i], time_args[r]) => InSlot(r, i) = Zeros(7)
     /\ ~HeadAt(out_from[r][i], out_t[r]) => OutSlot(r, i) = Zeros(2)

\* a row in which a stream missed the input clock and yet has an output
\* written from a tick, and a row in which a stream that still holds ticks
\* is zero-filled on both sides
C4_Witness ==
  /\ \E r \in Rows : \E i \in Streams :
       /\ ~HeadAt(scan_from[r][i], time_args[r])
       /\ InSlot(r, i) = Zeros(7)
       /\ OutSlot(r, i) # Zeros(2)
  /\ \E r \in Rows : \E i \in Streams :
       /\ ~HeadAt(scan_from[r][i], time_args[r])
       /\ ~HeadAt(out_from[r][i], out_t[r])
       /\ scan_from[r][i] # <<>>
       /\ InSlot(r, i) = Zeros(7)
       /\ OutSlot(r, i) = Zeros(2)

(***************************************************************************)
(* C4 (as claimed).  In every row of a returned batch, a stream none of    *)
(* whose ticks carries the clock value at which the row's inputs are       *)
(* written contributes exactly 7 zero input fields and exactly 2 zero      *)
(* output fields to that same row.                                         *)
(***************************************************************************)
C4_Original ==
  result.kind = "Some" =>
    \A r \in Rows : \A i \in Streams :
       (\A j \in 1..Len(scan_from[r][i]) : scan_from[r][i][j].t # time_args[r]) =>
          /\ InSlot(r, i) = Zeros(7)
          /\ OutSlot(r, i) = Zeros(2)

(***************************************************************************)
(* C5. In the input scan of a row, for each stream: when the stream's next *)
(* tick carries curr_t, the row's slot of that stream holds the tick's     *)
(* seven numeric fields (o, h, l, c, v, vw, n, as f32) and the stream is   *)
(* advanced by exactly one tick; otherwise (another timestamp, or          *)
(* exhausted) the slot holds 7 zeros and the stream is where it was.       *)
(***************************************************************************)
C5_InputScan ==
  \A r \in Rows : \A i \in Streams :
     LET before == scan_from[r][i]
         after == out_from[r][i]
     IN IF before # <<>> /\ before[1].t = time_args[r]
        THEN /\ InSlot(r, i) =
                  << CastF32(before[1].o), CastF32(before[1].h),
                     CastF32(before[1].l), CastF32(before[1].c),
                     CastF32(before[1].v), CastF32(before[1].vw),
                     CastF32(before[1].n) >>
             /\ Len(after) = Len(before) - 1
             /\ after = SubSeq(before, 2, Len(before))
        ELSE /\ InSlot(r, i) = << 0, 0, 0, 0, 0, 0, 0 >>
             /\ after = before

\* one scan in which a stream is hit and a second is skipped for its
\* timestamp, and a scan that skips an exhausted stream
C5_Witness ==
  /\ \E r \in Rows : \E i, k \in Streams :
       /\ HeadAt(scan_from[r][i], time_args[r])
       /\ InSlot(r, i) # Zeros(7)
       /\ scan_from[r][k] # <<>>
       /\ ~HeadAt(scan_from[r][k], time_args[r])
  /\ \E r \in Rows : \E i \in Streams : scan_from[r][i] = <<>>

(***************************************************************************)
(* C6. After the input scan of a row, curr_t is the least next timestamp   *)
(* among the streams that were advanced in this row and still have a next  *)
(* tick; when no stream was advanced in this row, or every advanced stream *)
(* is exhausted, curr_t keeps the value it had.                            *)
(***************************************************************************)
AdvancedIn(r) == { i \in Streams : out_from[r][i] # scan_from[r][i] }

WaitingAfter(r) ==
  { Head(out_from[r][i]).t : i \in { k \in AdvancedIn(r) : out_from[r][k] # <<>> } }

C6_ClockAdvance ==
  \A r \in Rows :
     out_t[r] = IF WaitingAfter(r) = {} THEN time_args[r]
                ELSE SetMin(WaitingAfter(r))

\* the three cases in one call: the clock moves to the least of two waiting
\* timestamps that differ, stays because the advanced streams are exhausted,
\* and stays because no stream was advanced
C6_Witness ==
  /\ \E r \in Rows :
       /\ Cardinality(WaitingAfter(r)) = 2
       /\ out_t[r] # time_args[r]
  /\ \E r \in Rows : AdvancedIn(r) # {} /\ WaitingAfter(r) = {}
  /\ \E r \in Rows : AdvancedIn(r) = {}

(***************************************************************************)
(* C7. In a call over streams whose timestamps are each non-decreasing,    *)
(* the clock values handed to the time function, row after row, are        *)
(* non-decreasing.                                                         *)
(***************************************************************************)
C7_ClockMonotone ==
  (calls > 0 /\ AllNonDecreasing(entry)) =>
     \A r \in 1..(Len(time_args) - 1) : time_args[r] <= time_args[r + 1]

\* three rows at three increasing clock values, over two streams
C7_Witness ==
  /\ AllNonDecreasing(entry)
  /\ Len(entry) = 2
  /\ Len(time_args) = 3
  /\ time_args[1] < time_args[2]
  /\ time_args[2] < time_args[3]

(***************************************************************************)
(* C8. Once every stream is exhausted after some row of a call, the call   *)
(* still fills all batch_size * sequence_length rows, every later row      *)
(* holds zeros in all 7K stream input fields and in all 2K output fields,  *)
(* and the call (with a time function that appends date_inputs values)     *)
(* returns Some with tensors of the full size.                             *)
(***************************************************************************)
C8_ExhaustionZeroFills ==
  \A r \in Rows :
     Exhausted(out_from[r]) =>
        /\ Len(out_t) = batch_size * sequence_length
        /\ \A r2 \in Rows : r2 > r =>
             /\ Slice(input, SlotBase(r2) + 1, SlotBase(r2) + 7 * stocks)
                  = Zeros(7 * stocks)
             /\ Slice(output, (r2 - 1) * 2 * stocks + 1, r2 * 2 * stocks)
                  = Zeros(2 * stocks)
        /\ time_width = date_inputs =>
             /\ result.kind = "Some"
             /\ Len(result.input.data) =
                  batch_size * sequence_length
                    * (additional_inputs + date_inputs + 7 * stocks)
             /\ Len(result.output.data) =
                  batch_size * sequence_length * 2 * stocks

\* two streams run dry in the first of three rows
C8_Witness ==
  /\ result.kind = "Some"
  /\ stocks = 2
  /\ Len(out_t) = 3
  /\ ~Exhausted(entry)
  /\ \A i \in Streams : entry[i] # <<>>
  /\ Exhausted(out_from[1])

(***************************************************************************)
(* C9. The output row is written after the row's clock advance: each       *)
(* stream contributes the fields (c, v) of its next tick, as f32, when     *)
(* that tick carries the advanced curr_t, and 2 zeros otherwise; writing   *)
(* the output row advances no stream.                                      *)
(***************************************************************************)
C9_OutputRow ==
  \A r \in Rows :
     /\ \A i \in Streams :
          LET ticks == out_from[r][i]
          IN OutSlot(r, i) =
               IF ticks # <<>> /\ ticks[1].t = out_t[r]
               THEN << CastF32(ticks[1].c), CastF32(ticks[1].v) >>
               ELSE << 0, 0 >>
     /\ IF r < Len(out_t)
        THEN scan_from[r + 1] = out_from[r] /\ time_args[r + 1] = out_t[r]
        ELSE tick_iterators = out_from[r] /\ curr_t = out_t[r]

\* a row whose clock moved, with one stream's output written from its next
\* tick and the other stream's output zero-filled
C9_Witness ==
  \E r \in Rows : \E i, k \in Streams :
     /\ out_t[r] # time_args[r]
     /\ HeadAt(out_from[r][i], out_t[r])
     /\ OutSlot(r, i) # Zeros(2)
     /\ out_from[r][k] # <<>>
     /\ OutSlot(r, k) = Zeros(2)

(***************************************************************************)
(* C10. The stall: when no stream is advanced in a row although some       *)
(* stream still holds ticks, then in every later row of the call no stream *)
(* is advanced either, curr_t never changes, and every stream is           *)
(* zero-filled in the inputs and in the outputs.  Such a row is reached    *)
(* over streams with non-decreasing timestamps.                            *)
(***************************************************************************)
StalledAt(r) == AdvancedIn(r) = {} /\ ~Exhausted(out_from[r])

C10_StallPersists ==
  \A r \in Rows :
     StalledAt(r) =>
        \A r2 \in Rows : r2 >= r =>
           /\ AdvancedIn(r2) = {}
           /\ out_from[r2] = scan_from[r]
           /\ time_args[r2] = time_args[r]
           /\ out_t[r2] = time_args[r]
           /\ \A i \in Streams : /\ InSlot(r2, i) = Zeros(7)
                                 /\ OutSlot(r2, i) = Zeros(2)

\* over non-decreasing streams: the first row consumes a tick, the second
\* stalls with a tick left, and the third is zero-filled as well
C10_Witness ==
  /\ AllNonDecreasing(entry)
  /\ result.kind = "Some"
  /\ Len(out_t) = 3
  /\ AdvancedIn(1) # {}
  /\ StalledAt(2)
  /\ ~Exhausted(tick_iterators)

(***************************************************************************)
(* Part 2.  The float type F of the scaler (CpuFloat = f64).               *)
(*                                                                         *)
(* A value is NaN, an infinity (n = 1 or n = -1), or a finite number n / d *)
(* in lowest terms with d > 0.  The operations follow IEEE 754 on NaN and  *)
(* the infinities, and a finite result beyond FLimit overflows to an       *)
(* infinity, as an f64 result beyond f64::MAX does.  On finite values the  *)
(* arithmetic is exact where f64 rounds to 53 bits, and there is one zero  *)
(* where f64 has two.                                                      *)
(***************************************************************************)
\* the largest finite magnitude (f64::MAX, scaled down)
FLimit == 64

RECURSIVE Gcd(_, _)
Gcd(a, b) == IF b = 0 THEN a ELSE Gcd(b, a % b)

Sign(n) == IF n < 0 THEN -1 ELSE IF n > 0 THEN 1 ELSE 0

NaN == [kind |-> "nan", n |-> 0, d |-> 1]

Inf(s) == [kind |-> "inf", n |-> s, d |-> 1]

\* the F value of the quotient n / d of two integers, d # 0
Ratio(n, d) ==
  LET g == Gcd(Abs(n), Abs(d))
      nn == (Sign(d) * n) \div g
      dd == Abs(d) \div g
  IN IF Abs(nn) > FLimit * dd THEN Inf(Sign(nn))
     ELSE [kind |-> "fin", n |-> nn, d |-> dd]

\* F::zero(), F::one()
F_zero == Ratio(0, 1)

F_one == Ratio(1, 1)

\* Float::is_finite
is_finite(x) == x.kind = "fin"

is_nan(x) == x.kind = "nan"

\* unary minus
FNeg(x) ==
  IF is_nan(x) THEN NaN
  ELSE IF x.kind = "inf" THEN Inf(-x.n)
  ELSE Ratio(-x.n, x.d)

\* x + y
FAdd(x, y) ==
  IF is_nan(x) \/ is_nan(y) THEN NaN
  ELSE IF x.kind = "inf"
  THEN IF y.kind = "inf" /\ y.n # x.n THEN NaN ELSE x
  ELSE IF y.kind = "inf" THEN y
  ELSE Ratio(x.n * y.d + y.n * x.d, x.d * y.d)

\* x - y
FSub(x, y) == FAdd(x, FNeg(y))

\* x * y
FMul(x, y) ==
  IF is_nan(x) \/ is_nan(y) THEN NaN
  ELSE IF x.kind = "inf" \/ y.kind = "inf"
  THEN IF x.n = 0 \/ y.n = 0 THEN NaN ELSE Inf(Sign(x.n) * Sign(y.n))
  ELSE Ratio(x.n * y.n, x.d * y.d)

\* x / y
FDiv(x, y) ==
  IF is_nan(x) \/ is_nan(y) THEN NaN
  ELSE IF x.kind = "inf"
  THEN IF y.kind = "inf" THEN NaN
       ELSE Inf(x.n * (IF y.n < 0 THEN -1 ELSE 1))
  ELSE IF y.kind = "inf" THEN F_zero
  ELSE IF y.n = 0
  THEN IF x.n = 0 THEN NaN ELSE Inf(Sign(x.n))
  ELSE Ratio(x.n * y.d, x.d * y.n)

\* Float::abs
FAbs(x) ==
  IF is_nan(x) THEN NaN
  ELSE IF x.kind = "inf" THEN Inf(1)
  ELSE Ratio(Abs(x.n), x.d)

\* x == y: false when either is NaN
FEq(x, y) == ~is_nan(x) /\ ~is_nan(y) /\ x = y

\* x < y: false when either is NaN
FLt(x, y) ==
  /\ ~is_nan(x) /\ ~is_nan(y)
  /\ x # y
  /\ IF x.kind = "inf" THEN x.n = -1
     ELSE IF y.kind = "inf" THEN y.n = 1
     ELSE x.n * y.d < y.n * x.d

\* x <= y: false when either is NaN
FLe(x, y) == FEq(x, y) \/ FLt(x, y)

\* Float::max: the other operand when one is NaN
Fmax(x, y) ==
  IF is_nan(x) THEN y
  ELSE IF is_nan(y) THEN x
  ELSE IF FLt(x, y) THEN y ELSE x

\* Float::min: the other operand when one is NaN
Fmin(x, y) ==
  IF is_nan(x) THEN y
  ELSE IF is_nan(y) THEN x
  ELSE IF FLt(y, x) THEN y ELSE x

\* x to the power of a natural number k
RECURSIVE FPowNat(_, _)
FPowNat(x, k) == IF k = 0 THEN F_one ELSE FMul(x, FPowNat(x, k - 1))

\* Float::powf(x, e), for an exponent e that is a whole number
powf(x, e) ==
  IF e.n >= 0 THEN FPowNat(x, e.n) ELSE FDiv(F_one, FPowNat(x, -e.n))

\* to_s: a chrono::Duration as a number of seconds in F.  The model counts a
\* Duration in whole seconds, so the division of its nanoseconds by 10^9 is
\* exact
to_s(dur) == Ratio(dur, 1)

(***************************************************************************)
(* ExpScaler.                                                              *)
(***************************************************************************)
\* clip
clip(value, range) == Fmin(Fmax(value, FNeg(range)), range)

\* ExpScaler::start
ExpScaler_start(start, average_decay, range_decay) ==
  [average |-> start, range |-> F_zero,
   average_decay |-> average_decay, range_decay |-> range_decay]

\* ExpScaler::scale
ExpScaler_scale(self, val) ==
  IF is_finite(val) THEN F_zero
  ELSE IF FEq(self.range, F_zero) THEN F_zero
  ELSE LET clip_range == FAdd(FAdd(self.range, self.range), self.range)
           diff == FSub(val, self.average)
           clipped == clip(diff, clip_range)
       IN FDiv(clipped, self.range)

\* a variant of update that forgets the range it had
ExpScaler_update_range_from_diff(self, val, dt) ==
  IF ~is_finite(val) THEN self
  ELSE LET dt_s == to_s(dt)
           diff == FAbs(FSub(val, self.average))
           range == FMul(diff, self.range_decay)
           old_proportion == powf(self.average_decay, dt_s)
           new_proportion == FSub(F_one, old_proportion)
       IN [self EXCEPT !.range = range,
                       !.average = FAdd(FMul(new_proportion, val),
                                        FMul(old_proportion, self.average))]

\* a variant of update that does not ignore NaN and Inf
ExpScaler_update_any(self, val, dt) ==
  LET dt_s == to_s(dt)
      diff == FAbs(FSub(val, self.average))
      range == FMul(Fmax(self.range, diff), self.range_decay)
      old_proportion == powf(self.average_decay, dt_s)
      new_proportion == FSub(F_one, old_proportion)
  IN [self EXCEPT !.range = range,
                  !.average = FAdd(FMul(new_proportion, val),
                                   FMul(old_proportion, self.average))]

\* a variant of update that moves the average before it takes the range
ExpScaler_update_average_first(self, val, dt) ==
  IF ~is_finite(val) THEN self
  ELSE LET dt_s == to_s(dt)
           old_proportion == powf(self.average_decay, dt_s)
           new_proportion == FSub(F_one, old_proportion)
           average == FAdd(FMul(new_proportion, val),
                           FMul(old_proportion, self.average))
           diff == FAbs(FSub(val, average))
       IN [self EXCEPT !.range = FMul(Fmax(self.range, diff), self.range_decay),
                       !.average = average]

\* ExpScaler::update
ExpScaler_update(self, val, dt) ==
  IF ~is_finite(val) THEN self
  ELSE LET dt_s == to_s(dt)
           diff == FAbs(FSub(val, self.average))
           range == FMul(Fmax(self.range, diff), self.range_decay)
           old_proportion == powf(self.average_decay, dt_s)
           new_proportion == FSub(F_one, old_proportion)
       IN [self EXCEPT !.range = range,
                       !.average = FAdd(FMul(new_proportion, val),
                                        FMul(old_proportion, self.average))]

(***************************************************************************)
(* The runs of one ExpScaler: started with some value and decay            *)
(* parameters, then scale and update called in any order with any values.  *)
(***************************************************************************)
\* at most MaxUpdates update calls on one scaler
MaxUpdates == 2

\* the large magnitude among the values: three times it overflows, and so
\* does the difference between it and its negative
BigValue == Ratio(40, 1)

\* the values a scaler is started with
StartValues == { F_zero, F_one, FNeg(BigValue) }

\* the decay parameters, in (0, 1]
Decays == { Ratio(1, 2), F_one }

\* the values handed to scale and update
FValues == { F_zero, F_one, BigValue, FNeg(BigValue), Inf(1), Inf(-1), NaN }

\* the elapsed times handed to update, in seconds
Durations == { -1, 0, 2 }

\* the batcher is not part of these runs
BatcherAbsent ==
  /\ additional_inputs = 0
  /\ date_inputs = 0
  /\ stocks = 0
  /\ tick_iterators = <<>>
  /\ additional_arg = <<>>
  /\ time_width = 0
  /\ batch_size = 0
  /\ sequence_length = 0
  /\ additional = <<>>
  /\ input = <<>>
  /\ output = <<>>
  /\ curr_t = 0
  /\ result = NoResult
  /\ calls = 0
  /\ entry = <<>>
  /\ time_args = <<>>
  /\ scan_from = <<>>
  /\ out_t = <<>>
  /\ out_from = <<>>
  /\ first_entry = <<>>
  /\ tick_slots = <<>>

\* the record of a call on the scaler self
ExpCall(op, self, val, dt, ret) ==
  [op |-> op, self |-> self, val |-> val, dt |-> dt, ret |-> ret]

InitExpScaler ==
  /\ BatcherAbsent
  /\ TickScalerAbsent
  /\ CalendarAbsent
  /\ TickGenAbsent
  /\ PolygonAbsent
  /\ \E x \in StartValues, ad \in Decays, rd \in Decays :
        /\ exp_scaler = ExpScaler_start(x, ad, rd)
        /\ exp_call = ExpCall("start", ExpScaler_start(x, ad, rd), x, 0, None)
  /\ exp_updates = 0

\* a call of scale
ExpScale ==
  /\ \E val \in FValues :
        exp_call' = ExpCall("scale", exp_scaler, val, 0,
                            ExpScaler_scale(exp_scaler, val))
  /\ UNCHANGED << exp_scaler, exp_updates >>
  /\ UNCHANGED << batcher_vars, tick_scaler_vars, calendar_vars, tick_gen_vars,
                  polygon_vars >>

\* a call of update
ExpUpdate ==
  /\ exp_updates < MaxUpdates
  /\ \E val \in FValues, dt \in Durations :
        /\ exp_scaler' = ExpScaler_update(exp_scaler, val, dt)
        /\ exp_call' = ExpCall("update", exp_scaler, val, dt, None)
  /\ exp_updates' = exp_updates + 1
  /\ UNCHANGED << batcher_vars, tick_scaler_vars, calendar_vars, tick_gen_vars,
                  polygon_vars >>

NextExpScaler == ExpScale \/ ExpUpdate

SpecExpScaler == InitExpScaler /\ [][NextExpScaler]_vars

(***************************************************************************)
(* TickExpScaler.  A Tick<F> is a record of a timestamp t, counted in      *)
(* seconds, and the seven F values o, h, l, c, v, vw, n.                   *)
(***************************************************************************)
TickFields == { "o", "h", "l", "c", "v", "vw", "n" }

\* TickExpScaler::new
TickExpScaler_new(t, base) ==
  [t |-> t, o |-> base, h |-> base, l |-> base, c |-> base, v |-> base,
   vw |-> base, n |-> base]

\* TickExpScaler::scale
TickExpScaler_scale(self, tick) ==
  [t |-> tick.t,
   o |-> ExpScaler_scale(self.o, tick.o),
   c |-> ExpScaler_scale(self.c, tick.c),
   h |-> ExpScaler_scale(self.h, tick.h),
   l |-> ExpScaler_scale(self.l, tick.l),
   v |-> ExpScaler_scale(self.v, tick.v),
   vw |-> ExpScaler_scale(self.vw, tick.vw),
   n |-> ExpScaler_scale(self.n, tick.n)]

\* TickExpScaler::update_dt
TickExpScaler_update_dt(self, tick, dt) ==
  [t |-> tick.t,
   o |-> ExpScaler_update(self.o, tick.o, dt),
   c |-> ExpScaler_update(self.c, tick.c, dt),
   h |-> ExpScaler_update(self.h, tick.h, dt),
   l |-> ExpScaler_update(self.l, tick.l, dt),
   v |-> ExpScaler_update(self.v, tick.v, dt),
   vw |-> ExpScaler_update(self.vw, tick.vw, dt),
   n |-> ExpScaler_update(self.n, tick.n, dt)]

\* a variant of update that takes the elapsed time after the timestamp is set
TickExpScaler_update_late_dt(self, tick) ==
  TickExpScaler_update_dt(self, tick, tick.t - tick.t)

\* TickExpScaler::update
TickExpScaler_update(self, tick) ==
  TickExpScaler_update_dt(self, tick, tick.t - self.t)

\* a variant of tick that feeds the tick into the scaler twice
TickExpScaler_tick_twice(self, tick) ==
  [scaled_tick |-> TickExpScaler_scale(self, tick),
   self |-> TickExpScaler_update(TickExpScaler_update(self, tick), tick)]

\* TickExpScaler::tick: the tick it returns and the scaler it leaves
TickExpScaler_tick(self, tick) ==
  [scaled_tick |-> TickExpScaler_scale(self, tick),
   self |-> TickExpScaler_update(self, tick)]

(***************************************************************************)
(* The runs of one TickExpScaler: made from a base scaler at time 0, then  *)
(* tick, update and scale called in any order.                             *)
(***************************************************************************)
\* at most MaxTickCalls calls of tick and update on one scaler
MaxTickCalls == 2

\* the prices the ticks are built around
PriceBases == { 1, 20 }

\* a tick with seven different finite fields
CleanTick(t, x) ==
  [t |-> t, o |-> Ratio(x, 1), h |-> Ratio(x + 2, 1), l |-> Ratio(x - 1, 1),
   c |-> Ratio(x + 1, 1), v |-> Ratio(x + 5, 1), vw |-> Ratio(2 * x + 1, 2),
   n |-> Ratio(x + 3, 1)]

\* the ticks stamped t: two with finite fields only, two in which some
\* fields are NaN or infinite (each field is non-finite in one of them), and
\* one in which a single field is NaN
ScalerTicks(t) ==
  { CleanTick(t, x) : x \in PriceBases }
    \cup { [CleanTick(t, 1) EXCEPT !.o = NaN, !.l = Inf(-1), !.v = Inf(1),
                                   !.n = NaN],
           [CleanTick(t, 1) EXCEPT !.h = Inf(1), !.c = NaN, !.vw = Inf(-1)],
           [CleanTick(t, 20) EXCEPT !.vw = NaN] }

\* how far after the scaler's timestamp a tick is stamped, in seconds
TickGaps == { -1, 2 }

\* the record of a call on the scaler self
TickCall(op, self, tick, ret) ==
  [op |-> op, self |-> self, tick |-> tick, ret |-> ret]

\* a variant of the scaler made from a first tick: TickExpScaler::new with a
\* base scaler started at the open of the tick
TickExpScaler_from_first_open(first_tick, average_decay, range_decay) ==
  TickExpScaler_new(first_tick.t,
                    ExpScaler_start(first_tick.o, average_decay, range_decay))

\* the scaler made from a first tick: a TickExpScaler { .. } with one
\* ExpScaler::start per field
TickExpScaler_from_first_tick(first_tick, average_decay, range_decay) ==
  [t |-> first_tick.t,
   o |-> ExpScaler_start(first_tick.o, average_decay, range_decay),
   h |-> ExpScaler_start(first_tick.h, average_decay, range_decay),
   l |-> ExpScaler_start(first_tick.l, average_decay, range_decay),
   c |-> ExpScaler_start(first_tick.c, average_decay, range_decay),
   v |-> ExpScaler_start(first_tick.v, average_decay, range_decay),
   vw |-> ExpScaler_start(first_tick.vw, average_decay, range_decay),
   n |-> ExpScaler_start(first_tick.n, average_decay, range_decay)]

InitTickScaler ==
  /\ BatcherAbsent
  /\ ExpScalerAbsent
  /\ CalendarAbsent
  /\ TickGenAbsent
  /\ PolygonAbsent
  /\ \/ \E x \in StartValues, ad \in Decays, rd \in Decays :
           /\ tick_scaler = TickExpScaler_new(0, ExpScaler_start(x, ad, rd))
           /\ tick_call = TickCall("new", TickExpScaler_new(0, ExpScaler_start(x, ad, rd)),
                                   None, None)
     \/ \E first_tick \in ScalerTicks(0), decay \in Decays :
           /\ tick_scaler = TickExpScaler_from_first_tick(first_tick, decay, decay)
           /\ tick_call = TickCall("first_tick", tick_scaler, first_tick, None)
  /\ tick_calls = 0

\* a call of tick
TickScalerTick ==
  /\ tick_calls < MaxTickCalls
  /\ \E dt \in TickGaps : \E tick \in ScalerTicks(tick_scaler.t + dt) :
        \E o \in { TickExpScaler_tick(tick_scaler, tick) } :
           /\ tick_scaler' = o.self
           /\ tick_call' = TickCall("tick", tick_scaler, tick, o.scaled_tick)
  /\ tick_calls' = tick_calls + 1
  /\ UNCHANGED << batcher_vars, exp_vars, calendar_vars, tick_gen_vars,
                  polygon_vars >>

\* a call of update
TickScalerUpdate ==
  /\ tick_calls < MaxTickCalls
  /\ \E dt \in TickGaps : \E tick \in ScalerTicks(tick_scaler.t + dt) :
        /\ tick_scaler' = TickExpScaler_update(tick_scaler, tick)
        /\ tick_call' = TickCall("update", tick_scaler, tick, None)
  /\ tick_calls' = tick_calls + 1
  /\ UNCHANGED << batcher_vars, exp_vars, calendar_vars, tick_gen_vars,
                  polygon_vars >>

\* a call of scale
TickScalerScale ==
  /\ \E tick \in ScalerTicks(tick_scaler.t) :
        tick_call' = TickCall("scale", tick_scaler, tick,
                              TickExpScaler_scale(tick_scaler, tick))
  /\ UNCHANGED << tick_scaler, tick_calls >>
  /\ UNCHANGED << batcher_vars, exp_vars, calendar_vars, tick_gen_vars,
                  polygon_vars >>

NextTickScaler == TickScalerTick \/ TickScalerUpdate \/ TickScalerScale

SpecTickScaler == InitTickScaler /\ [][NextTickScaler]_vars

(***************************************************************************)
(* Reading the last call on the scaler.                                    *)
(***************************************************************************)
F_three == Ratio(3, 1)

\* lo <= x <= hi, false for NaN
FWithin(x, lo, hi) == FLe(lo, x) /\ FLe(x, hi)

(***************************************************************************)
(* C11 (as claimed).  scale returns 0 whenever range == 0, and whenever    *)
(* the value is non-finite (NaN or infinite), for every scaler state.      *)
(***************************************************************************)
C11_ScaleZeroCases ==
  exp_call.op = "scale" =>
     /\ FEq(exp_call.self.range, F_zero) => exp_call.ret = F_zero
     /\ ~is_finite(exp_call.val) => exp_call.ret = F_zero

(***************************************************************************)
(* C12 (as claimed).  For a finite value and range > 0, scale returns      *)
(* clamp(value - average, -3 * range, 3 * range) / range, which is not 0   *)
(* when value differs from average.                                        *)
(***************************************************************************)
C12_ScaleFormula ==
  (/\ exp_call.op = "scale"
   /\ is_finite(exp_call.val)
   /\ FLt(F_zero, exp_call.self.range)) =>
     LET self == exp_call.self
         bound == FMul(F_three, self.range)
         diff == FSub(exp_call.val, self.average)
         clamped == IF FLt(diff, FNeg(bound)) THEN FNeg(bound)
                    ELSE IF FLt(bound, diff) THEN bound ELSE diff
     IN /\ exp_call.ret = FDiv(clamped, self.range)
        /\ ~FEq(exp_call.val, self.average) => ~FEq(exp_call.ret, F_zero)

(***************************************************************************)
(* C13 (as claimed).  After any sequence of update calls on a scaler       *)
(* started with range 0 and decays in (0, 1], scale(value) lies in         *)
(* [-3, 3] for every value, finite or not.                                 *)
(***************************************************************************)
C13_ScaleBounded ==
  (/\ exp_call.op = "scale"
   /\ FLt(F_zero, exp_call.self.average_decay)
   /\ FLe(exp_call.self.average_decay, F_one)
   /\ FLt(F_zero, exp_call.self.range_decay)
   /\ FLe(exp_call.self.range_decay, F_one)) =>
     FWithin(exp_call.ret, FNeg(F_three), F_three)

(***************************************************************************)
(* C14.  update with a non-finite value (NaN or infinite) leaves average,  *)
(* range, average_decay and range_decay unchanged, for any elapsed         *)
(* duration.                                                               *)
(***************************************************************************)
C14_UpdateIgnoresNonFinite ==
  (exp_call.op = "update" /\ ~is_finite(exp_call.val)) =>
     /\ exp_scaler.average = exp_call.self.average
     /\ exp_scaler.range = exp_call.self.range
     /\ exp_scaler.average_decay = exp_call.self.average_decay
     /\ exp_scaler.range_decay = exp_call.self.range_decay

\* an infinite value, two seconds after an update that gave the scaler a
\* range and moved its average
C14_Witness ==
  /\ exp_call.op = "update"
  /\ exp_call.val = Inf(1)
  /\ exp_call.dt = 2
  /\ exp_updates = 2
  /\ FLt(F_zero, exp_scaler.range)
  /\ is_finite(exp_scaler.range)
  /\ exp_scaler.average_decay = Ratio(1, 2)

(***************************************************************************)
(* C15.  update with a finite value sets                                   *)
(*   range' = max(range, |value - average|) * range_decay,                 *)
(* with average as it was before this update, and                          *)
(*   average' = (1 - d) * value + d * average,                             *)
(* with d = average_decay ^ elapsed_seconds; the two decay parameters are  *)
(* unchanged.                                                              *)
(***************************************************************************)
C15_UpdateFormula ==
  (exp_call.op = "update" /\ is_finite(exp_call.val)) =>
     LET self == exp_call.self
         value == exp_call.val
         dev == FAbs(FSub(value, self.average))
         d == powf(self.average_decay, Ratio(exp_call.dt, 1))
     IN /\ exp_scaler.range =
             FMul(IF FLt(self.range, dev) THEN dev ELSE self.range,
                  self.range_decay)
        /\ exp_scaler.average =
             FAdd(FMul(FSub(F_one, d), value), FMul(d, self.average))
        /\ exp_scaler.average_decay = self.average_decay
        /\ exp_scaler.range_decay = self.range_decay

\* start(1, 1/2, 1/2), update(0, 0 s), update(-40, 2 s): the first update
\* leaves the range 1/2 and, with d = 1, the average 1; the second has the
\* deviation 41 and d = 1/4, so range' = 41/2 and average' = -30 + 1/4
C15_Witness ==
  /\ exp_call.op = "update"
  /\ exp_updates = 2
  /\ exp_call.val = FNeg(BigValue)
  /\ exp_call.dt = 2
  /\ exp_call.self.average = F_one
  /\ exp_call.self.range = Ratio(1, 2)
  /\ exp_call.self.average_decay = Ratio(1, 2)
  /\ exp_call.self.range_decay = Ratio(1, 2)
  /\ exp_scaler.range = Ratio(41, 2)
  /\ exp_scaler.average = Ratio(-119, 4)

(***************************************************************************)
(* C16.  TickExpScaler::tick returns the tick scaled against the scaler as *)
(* it was before this tick was incorporated: every field of the returned   *)
(* tick is scale of that field on the field's scaler as it was at the      *)
(* call, and the timestamp is the tick's; and tick then applies update     *)
(* exactly once: afterwards every field's scaler is the one update of the  *)
(* scaler it was, with elapsed = tick.t - t, and t is the tick's.          *)
(***************************************************************************)
C16_TickScalesThenUpdates ==
  tick_call.op = "tick" =>
     LET self == tick_call.self
         tick == tick_call.tick
     IN /\ tick_call.ret.t = tick.t
        /\ \A f \in TickFields :
             tick_call.ret[f] = ExpScaler_scale(self[f], tick[f])
        /\ tick_scaler.t = tick.t
        /\ \A f \in TickFields :
             tick_scaler[f] = ExpScaler_update(self[f], tick[f], tick.t - self.t)

\* a second tick, with an infinite volume: its volume is scaled to a
\* non-zero value against the range the first tick left, and feeding it
\* moves the scaler of a finite field (h) but not the volume's
C16_Witness ==
  /\ tick_call.op = "tick"
  /\ tick_calls = 2
  /\ tick_call.tick.v = Inf(1)
  /\ tick_call.ret.v = F_three
  /\ tick_call.self.h # tick_scaler.h
  /\ tick_call.self.v = tick_scaler.v

(***************************************************************************)
(* Part 3.  The trading calendar.                                          *)
(*                                                                         *)
(* A date is the number of days since some Monday, a time of day is the    *)
(* number of minutes since midnight, and a DateTime is a record of both    *)
(* (the seconds of the timestamps made here are always 0).                 *)
(***************************************************************************)
\* chrono::Weekday, in the order of the days of a week
Weekdays == << "Mon", "Tue", "Wed", "Thu", "Fri", "Sat", "Sun" >>

\* Datelike::weekday
weekday(date) == Weekdays[(date % Len(Weekdays)) + 1]

\* Date::succ
succ(date) == date + 1

\* Date::and_hms(h, m, 0)
and_hms(date, h, m) == [date |-> date, min |-> h * 60 + m]

\* Timelike::hour, Timelike::minute
hour(datetime) == datetime.min \div 60

minute(datetime) == datetime.min % 60

\* DateTime + Duration::minutes(k), for k >= 0
PlusMinutes(datetime, k) ==
  [date |-> datetime.date + ((datetime.min + k) \div (24 * 60)),
   min |-> (datetime.min + k) % (24 * 60)]

\* a variant of the trading-day check that takes Saturday for a trading day
naive_utc_is_nasdaq_trading_day_but_sunday(date) == weekday(date) # "Sun"

\* naive_utc_is_nasdaq_trading_day, and is_nasdaq_trading_day, which calls it
\* with the UTC date
naive_utc_is_nasdaq_trading_day(date) ==
  CASE weekday(date) = "Sat" -> FALSE
    [] weekday(date) = "Sun" -> FALSE
    [] OTHER -> TRUE

\* a variant of the trading-time check that closes the 21:00 minute
naitve_utc_is_nasdaq_trading_time_open_end(datetime) ==
  IF ~naive_utc_is_nasdaq_trading_day(datetime.date) THEN FALSE
  ELSE CASE hour(datetime) = 14 -> minute(datetime) >= 30
         [] hour(datetime) \in 15..20 -> TRUE
         [] OTHER -> FALSE

\* naitve_utc_is_nasdaq_trading_time, and is_nasdaq_trading_time, which calls
\* it with the UTC time
naitve_utc_is_nasdaq_trading_time(datetime) ==
  IF ~naive_utc_is_nasdaq_trading_day(datetime.date) THEN FALSE
  ELSE CASE hour(datetime) = 14 -> minute(datetime) >= 30
         [] hour(datetime) \in 15..20 -> TRUE
         [] hour(datetime) = 21 -> minute(datetime) = 0
         [] OTHER -> FALSE

\* NASDAQDays::next: the while loop
RECURSIVE SkipToTradingDay(_)
SkipToTradingDay(date) ==
  IF naive_utc_is_nasdaq_trading_day(date) THEN date ELSE SkipToTradingDay(succ(date))

\* NASDAQDays::next: the date returned and the iterator left
NASDAQDays_next(self) ==
  LET day == SkipToTradingDay(self[1])
  IN [ret |-> Some(day), self |-> << succ(day) >>]

\* NASDAQMinutes::for_date
NASDAQMinutes_for_date(date) == << and_hms(date, 14, 30) >>

\* NASDAQMinutes::next: the time returned and the iterator left
NASDAQMinutes_next(self) ==
  IF ~naitve_utc_is_nasdaq_trading_time(self[1]) THEN [ret |-> None, self |-> self]
  ELSE [ret |-> Some(self[1]), self |-> << PlusMinutes(self[1], 1) >>]

(***************************************************************************)
(* The runs of the calendar: one NASDAQDays iterator made with some date,  *)
(* or one NASDAQMinutes iterator made for some date, and next called on it *)
(* again and again.                                                        *)
(***************************************************************************)
\* at most MaxDayCalls calls of NASDAQDays::next
MaxDayCalls == 9

\* at most MaxIdleCalls calls of NASDAQMinutes::next that return None
MaxIdleCalls == 3

\* the dates the iterators are made with: two weeks, every weekday twice
FirstDates == 0..(2 * Len(Weekdays) - 1)

InitCalendar ==
  /\ BatcherAbsent
  /\ ExpScalerAbsent
  /\ TickScalerAbsent
  /\ TickGenAbsent
  /\ PolygonAbsent
  /\ \/ /\ \E date \in FirstDates : nasdaq_days = << date >>
        /\ days_from = nasdaq_days
        /\ days_ret = None
        /\ days_yielded = <<>>
        /\ nasdaq_minutes = None
        /\ minutes_date = None
        /\ minutes_ret = None
        /\ minutes_prev = None
        /\ minutes_count = 0
        /\ minutes_idle = 0
     \/ /\ nasdaq_days = None
        /\ days_from = None
        /\ days_ret = None
        /\ days_yielded = <<>>
        /\ \E date \in FirstDates :
              /\ minutes_date = << date >>
              /\ nasdaq_minutes = NASDAQMinutes_for_date(date)
        /\ minutes_ret = None
        /\ minutes_prev = None
        /\ minutes_count = 0
        /\ minutes_idle = 0

\* a call of NASDAQDays::next
DaysNext ==
  /\ nasdaq_days # None
  /\ Len(days_yielded) < MaxDayCalls
  /\ \E o \in { NASDAQDays_next(nasdaq_days) } :
        /\ nasdaq_days' = o.self
        /\ days_ret' = o.ret
        /\ days_yielded' = days_yielded \o o.ret
  /\ UNCHANGED << days_from, nasdaq_minutes, minutes_date, minutes_ret,
                  minutes_prev, minutes_count, minutes_idle >>
  /\ UNCHANGED << batcher_vars, exp_vars, tick_scaler_vars, tick_gen_vars,
                  polygon_vars >>

\* a call of NASDAQMinutes::next
MinutesNext ==
  /\ nasdaq_minutes # None
  /\ minutes_idle < MaxIdleCalls
  /\ \E o \in { NASDAQMinutes_next(nasdaq_minutes) } :
        /\ nasdaq_minutes' = o.self
        /\ minutes_ret' = o.ret
        /\ minutes_count' = minutes_count + Len(o.ret)
        /\ minutes_idle' = minutes_idle + (1 - Len(o.ret))
  /\ minutes_prev' = minutes_ret
  /\ UNCHANGED << minutes_date, nasdaq_days, days_from, days_ret, days_yielded >>
  /\ UNCHANGED << batcher_vars, exp_vars, tick_scaler_vars, tick_gen_vars,
                  polygon_vars >>

NextCalendar == DaysNext \/ MinutesNext

SpecCalendar == InitCalendar /\ [][NextCalendar]_vars

(***************************************************************************)
(* C17.  NASDAQDays never ends: every next returns a date.  The dates it   *)
(* returns are strictly increasing, none of them is a Saturday or a        *)
(* Sunday, and they are the Monday-to-Friday dates from the date the       *)
(* iterator was made with up to the last one returned, each exactly once.  *)
(***************************************************************************)
C17_DaysAreTheWeekdays ==
  (days_from # None) =>
    /\ (days_yielded # <<>>) => (days_ret # None)
    /\ \A i \in 1..Len(days_yielded) : \A j \in 1..Len(days_yielded) :
          (i < j) => (days_yielded[i] < days_yielded[j])
    /\ \A i \in 1..Len(days_yielded) :
          weekday(days_yielded[i]) \notin { "Sat", "Sun" }
    /\ (days_yielded # <<>>) =>
          { days_yielded[i] : i \in 1..Len(days_yielded) }
            = { date \in days_from[1]..days_yielded[Len(days_yielded)] :
                  weekday(date) \in { "Mon", "Tue", "Wed", "Thu", "Fri" } }

\* an iterator made with a Saturday has returned six dates, and has skipped
\* the weekend it started in and the one after
C17_Witness ==
  /\ days_from = << 5 >>
  /\ days_yielded = << 7, 8, 9, 10, 11, 14 >>
  /\ days_ret = Some(14)

(***************************************************************************)
(* C18.  NASDAQMinutes::for_date on a Monday-to-Friday date returns the    *)
(* timestamps of that date from 14:30 UTC to 21:00 UTC inclusive, each one *)
(* minute after the one before, 391 of them, and None on every call after. *)
(***************************************************************************)
C18_MinutesOfTheSession ==
  ((minutes_date # None) /\ (weekday(minutes_date[1]) \notin { "Sat", "Sun" })) =>
    /\ minutes_count <= 391
    /\ (minutes_ret # None) =>
          /\ minutes_idle = 0
          /\ minutes_ret[1] = [date |-> minutes_date[1],
                               min |-> 14 * 60 + 30 + (minutes_count - 1)]
          /\ minutes_ret[1].min <= 21 * 60
    /\ ((minutes_ret # None) /\ (minutes_prev # None)) =>
          /\ minutes_ret[1].date = minutes_prev[1].date
          /\ minutes_ret[1].min = minutes_prev[1].min + 1
    /\ (minutes_ret = None) =>
          \/ minutes_count = 0 /\ minutes_idle = 0
          \/ minutes_count = 391 /\ minutes_idle > 0
    /\ (minutes_idle = 1) =>
          (minutes_prev = Some([date |-> minutes_date[1], min |-> 21 * 60]))
    /\ (minutes_idle > 1) => (minutes_prev = None)

\* an iterator made for a Monday has returned its 391 timestamps and then
\* None twice
C18_Witness ==
  /\ minutes_date = << 0 >>
  /\ minutes_count = 391
  /\ minutes_idle = 2
  /\ minutes_ret = None

(***************************************************************************)
(* Part 4.  TickGen.                                                       *)
(*                                                                         *)
(* The time generator is a Peekable over a finite sequence of timestamps,  *)
(* whole seconds; the sequence is what is still to come, its head what     *)
(* peek returns.  The random draws of the two sample generators are inputs *)
(* of a call: for the volume generator the two values its distributions    *)
(* give, for the price generator the price its walk arrives at.            *)
(***************************************************************************)
\* f64::round: to the nearest whole number, halves away from zero
FRound(x) ==
  IF x.kind # "fin" THEN x
  ELSE Ratio(Sign(x.n) * ((2 * Abs(x.n) + x.d) \div (2 * x.d)), 1)

\* a variant of the sum that leaves the last element out
RECURSIVE FSumButLast(_)
FSumButLast(xs) ==
  IF Len(xs) < 2 THEN F_zero
  ELSE FAdd(FSumButLast(SubSeq(xs, 1, Len(xs) - 1)), xs[Len(xs) - 1])

\* Iterator::sum over f64
RECURSIVE FSum(_)
FSum(xs) == IF xs = <<>> THEN F_zero ELSE FAdd(FSum(SubSeq(xs, 1, Len(xs) - 1)), xs[Len(xs)])

\* a variant of VolumeGen::next_after that returns the volume whatever the
\* rounded trade count is
VolumeGen_next_after_raw(after, no_trades_draw, average_draw) ==
  LET no_trades == FMul(Fmax(no_trades_draw, F_zero), after)
      volume == FMul(no_trades, Fmax(average_draw, F_zero))
  IN [v |-> volume, n |-> FRound(no_trades)]

\* VolumeGen::next_after, for after >= 0, with the two draws of its
\* distributions
VolumeGen_next_after(after, no_trades_draw, average_draw) ==
  LET no_trades == FMul(Fmax(no_trades_draw, F_zero), after)
      volume == FMul(no_trades, Fmax(average_draw, F_zero))
      n == FRound(no_trades)
      v == IF FEq(n, F_zero) THEN F_zero ELSE volume
  IN [v |-> v, n |-> n]

\* a variant of the high of a tick: the third price sample
prices_third(prices) == prices[3]

\* prices.iter().max_by(|l, r| l.partial_cmp(r).unwrap_or(Less)): max_by keeps
\* the element it holds only when the comparison says Greater
prices_max_by(prices) ==
  LET keep(x, y) == IF FLt(y, x) THEN x ELSE y
  IN keep(keep(keep(prices[1], prices[2]), prices[3]), prices[4])

\* prices.iter().min_by(|l, r| l.partial_cmp(r).unwrap_or(Greater)): min_by
\* takes the new element only when the comparison says Greater
prices_min_by(prices) ==
  LET keep(x, y) == IF FLt(y, x) \/ is_nan(x) \/ is_nan(y) THEN y ELSE x
  IN keep(keep(keep(prices[1], prices[2]), prices[3]), prices[4])

\* what a call of next leaves: the value returned, the TickGen after it, the
\* Volumes and prices sampled, whether it panicked, and the durations passed
\* to next_after, call by call (the volume generator's, then the price
\* generator's)
GenOutcome(ret, self, volumes, prices, panic, afters) ==
  [ret |-> ret, self |-> self, volumes |-> volumes, prices |-> prices,
   panic |-> panic, afters |-> afters]

\* a variant of TickGen::next that does not look at the timestamp to come:
\* it yields a tick for every timestamp
TickGen_next_no_peek(self, volume_draws, price_draws) ==
  IF self.time_gen = <<>>
  THEN GenOutcome(None, self, <<>>, <<>>, FALSE, <<>>)
  ELSE GenOutcome(Some([t |-> Head(self.time_gen), o |-> self.close,
                        h |-> self.close, l |-> self.close, c |-> self.close,
                        v |-> F_zero, vw |-> self.close, n |-> F_zero]),
                  [self EXCEPT !.time_gen = Tail(self.time_gen)],
                  <<>>, <<>>, FALSE, <<>>)

\* a variant of TickGen::next that stamps the tick with the timestamp it
\* consumed
TickGen_next_old_time(self, volume_draws, price_draws) ==
  IF Len(self.time_gen) < 2
  THEN GenOutcome(None, [self EXCEPT !.time_gen = <<>>], <<>>, <<>>, FALSE, <<>>)
  ELSE GenOutcome(Some([t |-> self.time_gen[1], o |-> self.close,
                        h |-> self.close, l |-> self.close, c |-> self.close,
                        v |-> F_zero, vw |-> self.close, n |-> F_zero]),
                  [self EXCEPT !.time_gen = Tail(self.time_gen)],
                  <<>>, <<>>, FALSE, <<>>)

\* a variant of TickGen::next without the zero-volume special case: it
\* samples the prices and divides by the volume whatever the volume is
TickGen_next_always_divide(self, volume_draws, price_draws) ==
  IF Len(self.time_gen) < 2
  THEN GenOutcome(None, [self EXCEPT !.time_gen = <<>>], <<>>, <<>>, FALSE, <<>>)
  ELSE
  LET after == Ratio(self.time_gen[2] - self.time_gen[1], 4)
      volumes == [i \in 1..4 |->
                    VolumeGen_next_after(FAbs(after), volume_draws[i][1],
                                         volume_draws[i][2])]
      v == FSum([i \in 1..4 |-> volumes[i].v])
      vw == FDiv(FSum([i \in 1..4 |-> FMul(volumes[i].v, price_draws[i])]), v)
  IN GenOutcome(Some([t |-> self.time_gen[2], o |-> price_draws[1],
                      h |-> prices_max_by(price_draws),
                      l |-> prices_min_by(price_draws), c |-> price_draws[4],
                      v |-> v, vw |-> vw,
                      n |-> FSum([i \in 1..4 |-> volumes[i].n])]),
                [time_gen |-> Tail(self.time_gen), close |-> price_draws[4]],
                volumes, price_draws, FALSE,
                << after, after, after, after, after, after, after, after >>)

\* TickGen::next, with the draws of the four volume samples and the four price
\* samples
TickGen_next(self, volume_draws, price_draws) ==
  IF self.time_gen = <<>>
  THEN GenOutcome(None, self, <<>>, <<>>, FALSE, <<>>)
  ELSE
  LET old_time == Head(self.time_gen)
      rest == Tail(self.time_gen)
  IN
  IF rest = <<>>
  THEN GenOutcome(None, [self EXCEPT !.time_gen = rest], <<>>, <<>>, FALSE, <<>>)
  ELSE
  LET t == Head(rest)
      dt == t - old_time
  IN
  IF dt < 0
  THEN \* (dt / 4).to_std().expect("Duration out of bounds!")
       GenOutcome(None, [self EXCEPT !.time_gen = rest], <<>>, <<>>, TRUE, <<>>)
  ELSE
  LET after == Ratio(dt, 4)
      volumes == [i \in 1..4 |->
                    VolumeGen_next_after(after, volume_draws[i][1],
                                         volume_draws[i][2])]
      v == FSum([i \in 1..4 |-> volumes[i].v])
  IN
  IF FEq(v, F_zero)
  THEN GenOutcome(Some([t |-> t, v |-> v, vw |-> self.close, o |-> self.close,
                        h |-> self.close, l |-> self.close, c |-> self.close,
                        n |-> F_zero]),
                  [self EXCEPT !.time_gen = rest], volumes, <<>>, FALSE,
                  << after, after, after, after >>)
  ELSE
  LET prices == price_draws
      o == prices[1]
      h == prices_max_by(prices)
      l == prices_min_by(prices)
      c == prices[4]
      vw == FDiv(FSum([i \in 1..4 |-> FMul(volumes[i].v, prices[i])]), v)
      n == FSum([i \in 1..4 |-> volumes[i].n])
  IN GenOutcome(Some([t |-> t, o |-> o, h |-> h, l |-> l, c |-> c, v |-> v,
                      vw |-> vw, n |-> n]),
                [time_gen |-> rest, close |-> c], volumes, prices, FALSE,
                << after, after, after, after, after, after, after, after >>)

(***************************************************************************)
(* The runs of a TickGen: it is made with some time generator and some     *)
(* close, and next is called on it again and again.                        *)
(***************************************************************************)
\* at most MaxGenCalls calls of next on a short time generator
MaxGenCalls == 4

\* at most MaxSessionCalls calls of next on the minutes of a day: its 390
\* ticks and three calls more
MaxSessionCalls == 393

\* DateTime::timestamp: the seconds since the origin
timestamp(datetime) == (datetime.date * 24 * 60 + datetime.min) * 60

\* the timestamps a NASDAQMinutes yields until it returns None.  Every call
\* that yields moves the iterator on by one minute, so call k is made on the
\* iterator k - 1 minutes on as long as the calls before it yielded.
NASDAQMinutes_collect(self) ==
  LET ret(k) == NASDAQMinutes_next(<< PlusMinutes(self[1], k - 1) >>).ret
      n == CHOOSE k \in 0..MaxSessionCalls :
             /\ \A j \in 1..k : ret(j) # None
             /\ ret(k + 1) = None
  IN [k \in 1..n |-> timestamp(ret(k)[1])]

\* the dates whose minutes drive a TickGen: a Monday and a Saturday
SessionDates == { 0, 5 }

\* NASDAQMinutes::for_date(date).peekable(), as the timestamps to come
SessionGen(date) == NASDAQMinutes_collect(NASDAQMinutes_for_date(date))

\* the time generators made of the minutes of a day
SessionGens == { SessionGen(date) : date \in SessionDates }

\* the minutes of the Monday
MondayGen == SessionGen(0)

\* the calls of next allowed on the time generator a TickGen was made with
GenCallsBound(time_gen) ==
  IF Len(time_gen) > MaxGenCalls THEN MaxSessionCalls ELSE MaxGenCalls

\* the time generators: empty, one timestamp, strictly increasing, with a
\* repeated timestamp, with a step back
TimeGens ==
  { <<>>, << 4 >>, << 0, 4, 12 >>, << 0, 4, 4 >>, << 0, 8, 4 >> }

\* the draws of the four volume samples, each << no_trades, average >>:
\* no trades at all; trades in every quarter; a quarter whose trade count
\* rounds to zero and one with a negative draw; trades of size zero
VolumeDraws ==
  { << << F_zero, F_one >>, << F_zero, F_one >>, << F_zero, F_one >>,
       << F_zero, F_one >> >>,
    << << F_one, Ratio(2, 1) >>, << F_one, F_one >>, << F_one, Ratio(2, 1) >>,
       << Ratio(2, 1), F_one >> >>,
    << << Ratio(1, 4), Ratio(2, 1) >>, << F_one, F_one >>,
       << FNeg(F_one), F_one >>, << F_one, FNeg(F_one) >> >> }

\* the draws of the four price samples
PriceDraws ==
  { << Ratio(2, 1), Ratio(3, 1), Ratio(1, 1), Ratio(2, 1) >>,
    << Ratio(3, 1), Ratio(2, 1), Ratio(2, 1), Ratio(1, 1) >>,
    << Ratio(1, 1), Ratio(1, 1), Ratio(1, 1), Ratio(1, 1) >>,
    << Ratio(1, 1), Inf(1), Inf(-1), Ratio(2, 1) >>,
    << Ratio(2, 1), NaN, Ratio(1, 1), Ratio(1, 1) >>,
    << Ratio(1, 1), Ratio(2, 1), NaN, Ratio(3, 1) >> }

InitTickGen ==
  /\ BatcherAbsent
  /\ ExpScalerAbsent
  /\ TickScalerAbsent
  /\ CalendarAbsent
  /\ PolygonAbsent
  /\ \E time_gen \in TimeGens : \E close \in { F_zero, BigValue } :
        /\ tick_gen = [time_gen |-> time_gen, close |-> close]
        /\ gen_from = << time_gen >>
  /\ gen_call = None
  /\ gen_stamps = <<>>
  /\ gen_calls = 0
  /\ gen_panicked = FALSE

\* a call of TickGen::next
TickGenNext ==
  /\ tick_gen # None
  /\ ~gen_panicked
  /\ gen_calls < GenCallsBound(gen_from[1])
  /\ \E volume_draws \in VolumeDraws : \E price_draws \in PriceDraws :
     \E o \in { TickGen_next(tick_gen, volume_draws, price_draws) } :
        /\ tick_gen' = o.self
        /\ gen_call' = << [self |-> tick_gen, volumes |-> o.volumes,
                           prices |-> o.prices, afters |-> o.afters,
                           ret |-> o.ret] >>
        /\ gen_stamps' = IF o.ret = None THEN gen_stamps
                         ELSE Append(gen_stamps, o.ret[1].t)
        /\ gen_panicked' = o.panic
  /\ gen_calls' = gen_calls + 1
  /\ UNCHANGED gen_from
  /\ UNCHANGED << batcher_vars, exp_vars, tick_scaler_vars, calendar_vars,
                  polygon_vars >>

NextTickGen == TickGenNext

SpecTickGen == InitTickGen /\ [][NextTickGen]_vars

\* the runs of a TickGen whose time generator is any of the short ones or the
\* trading minutes of one day
InitTickGenSession ==
  /\ BatcherAbsent
  /\ ExpScalerAbsent
  /\ TickScalerAbsent
  /\ CalendarAbsent
  /\ PolygonAbsent
  /\ \E time_gen \in TimeGens \cup SessionGens :
        /\ tick_gen = [time_gen |-> time_gen, close |-> F_zero]
        /\ gen_from = << time_gen >>
  /\ gen_call = None
  /\ gen_stamps = <<>>
  /\ gen_calls = 0
  /\ gen_panicked = FALSE

SpecTickGenSession == InitTickGenSession /\ [][NextTickGen]_vars

(***************************************************************************)
(* C19.  Over a strictly increasing time generator, the ticks a TickGen    *)
(* yields have strictly increasing t, and the t of each tick is the        *)
(* timestamp of the time generator that follows the one the call consumed: *)
(* the call takes one timestamp off the generator and stamps the tick with *)
(* the one it then peeks at.                                               *)
(***************************************************************************)
C19_TickStampsFollow ==
  ((gen_from # None) /\
   (\A i \in 1..Len(gen_from[1]) : \A j \in 1..Len(gen_from[1]) :
       (i < j) => (gen_from[1][i] < gen_from[1][j]))) =>
    /\ \A i \in 1..Len(gen_stamps) : \A j \in 1..Len(gen_stamps) :
          (i < j) => (gen_stamps[i] < gen_stamps[j])
    /\ \A i \in 1..Len(gen_stamps) :
          /\ i + 1 <= Len(gen_from[1])
          /\ gen_stamps[i] = gen_from[1][i + 1]
    /\ ((gen_call # None) /\ (gen_call[1].ret # None)) =>
          /\ Len(gen_call[1].self.time_gen) >= 2
          /\ gen_call[1].ret[1].t = gen_call[1].self.time_gen[2]
          /\ gen_call[1].ret[1].t > gen_call[1].self.time_gen[1]
          /\ tick_gen.time_gen = Tail(gen_call[1].self.time_gen)
          /\ Head(tick_gen.time_gen) = gen_call[1].ret[1].t

\* a TickGen over the timestamps 0, 4, 12 has yielded its two ticks, stamped
\* 4 and 12
C19_Witness ==
  /\ gen_from = << << 0, 4, 12 >> >>
  /\ gen_stamps = << 4, 12 >>
  /\ gen_call # None
  /\ gen_call[1].ret # None
  /\ gen_call[1].ret[1].t = 12

(***************************************************************************)
(* C20.  A tick yielded by TickGen with volume > 0, from four price        *)
(* samples none of which is NaN, has h >= o, h >= c, l <= o and l <= c.    *)
(***************************************************************************)
C20_HighLowBracket ==
  ((gen_call # None) /\ (gen_call[1].ret # None)) =>
    LET tick == gen_call[1].ret[1]
        prices == gen_call[1].prices
    IN (FLt(F_zero, tick.v) /\ (\A i \in 1..Len(prices) : ~is_nan(prices[i]))) =>
          /\ FLe(tick.o, tick.h)
          /\ FLe(tick.c, tick.h)
          /\ FLe(tick.l, tick.o)
          /\ FLe(tick.l, tick.c)

\* a tick with volume > 0 from the prices 2, 3, 1, 2: the high and the low
\* are samples from the middle of the interval
C20_Witness ==
  /\ gen_call # None
  /\ gen_call[1].ret # None
  /\ FLt(F_zero, gen_call[1].ret[1].v)
  /\ gen_call[1].prices = << Ratio(2, 1), Ratio(3, 1), Ratio(1, 1), Ratio(2, 1) >>
  /\ gen_call[1].ret[1].h = Ratio(3, 1)
  /\ gen_call[1].ret[1].l = Ratio(1, 1)

(***************************************************************************)
(* C21.  A call of TickGen::next that yields a tick samples the volume     *)
(* generator exactly 4 times, each time with a quarter of the interval,    *)
(* and the tick's volume is the sum of the four volumes.  When that sum is *)
(* zero the price generator is not sampled, and the tick has o, h, l, c    *)
(* and vw equal to the close carried and n = 0.  Otherwise the price       *)
(* generator is sampled exactly 4 times, each time with a quarter of the   *)
(* interval, open is the first and close the last price sample, trades is  *)
(* the sum of the four counts, and, when no price sample is NaN, high is   *)
(* the greatest and low the least of the four samples.                     *)
(***************************************************************************)
C21_FourSamples ==
  ((gen_call # None) /\ (gen_call[1].ret # None)) =>
    LET call == gen_call[1]
        tick == call.ret[1]
        quarter == Ratio(call.self.time_gen[2] - call.self.time_gen[1], 4)
        sum4(xs) == FAdd(FAdd(FAdd(FAdd(F_zero, xs[1]), xs[2]), xs[3]), xs[4])
    IN /\ Len(call.volumes) = 4
       /\ tick.v = sum4([i \in 1..4 |-> call.volumes[i].v])
       /\ \A i \in 1..Len(call.afters) : call.afters[i] = quarter
       /\ IF FEq(tick.v, F_zero)
          THEN /\ Len(call.prices) = 0
               /\ Len(call.afters) = 4
               /\ \A f \in { "o", "h", "l", "c", "vw" } : tick[f] = call.self.close
               /\ tick.n = F_zero
               /\ tick_gen.close = call.self.close
          ELSE /\ Len(call.prices) = 4
               /\ Len(call.afters) = 8
               /\ tick.o = call.prices[1]
               /\ tick.c = call.prices[4]
               /\ tick.n = sum4([i \in 1..4 |-> call.volumes[i].n])
               /\ (\A i \in 1..4 : ~is_nan(call.prices[i])) =>
                     /\ \E i \in 1..4 : tick.h = call.prices[i]
                     /\ \A i \in 1..4 : FLe(call.prices[i], tick.h)
                     /\ \E i \in 1..4 : tick.l = call.prices[i]
                     /\ \A i \in 1..4 : FLe(tick.l, call.prices[i])

\* the claim as it was stated: every call that yields a tick samples both
\* generators 4 times with a quarter of the interval and reports the first,
\* last, greatest and least price sample and the sums of volumes and counts
C21_Original ==
  ((gen_call # None) /\ (gen_call[1].ret # None)) =>
    LET call == gen_call[1]
        tick == call.ret[1]
        quarter == Ratio(call.self.time_gen[2] - call.self.time_gen[1], 4)
        sum4(xs) == FAdd(FAdd(FAdd(FAdd(F_zero, xs[1]), xs[2]), xs[3]), xs[4])
    IN /\ Len(call.volumes) = 4
       /\ Len(call.prices) = 4
       /\ Len(call.afters) = 8
       /\ \A i \in 1..Len(call.afters) : call.afters[i] = quarter
       /\ tick.o = call.prices[1]
       /\ tick.c = call.prices[4]
       /\ \E i \in 1..4 : tick.h = call.prices[i]
       /\ \A i \in 1..4 : is_nan(call.prices[i]) \/ FLe(call.prices[i], tick.h)
       /\ \E i \in 1..4 : tick.l = call.prices[i]
       /\ \A i \in 1..4 : is_nan(call.prices[i]) \/ FLe(tick.l, call.prices[i])
       /\ tick.v = sum4([i \in 1..4 |-> call.volumes[i].v])
       /\ tick.n = sum4([i \in 1..4 |-> call.volumes[i].n])

\* a tick over the interval from 4 to 12 with the volumes 4, 2, 4, 4 and the
\* prices 2, 3, 1, 2: eight samples, each after 2 s
C21_Witness ==
  /\ gen_call # None
  /\ gen_call[1].ret # None
  /\ gen_call[1].self.time_gen = << 4, 12 >>
  /\ gen_call[1].afters = [i \in 1..8 |-> Ratio(2, 1)]
  /\ gen_call[1].prices = << Ratio(2, 1), Ratio(3, 1), Ratio(1, 1), Ratio(2, 1) >>
  /\ gen_call[1].ret[1].v = Ratio(14, 1)
  /\ gen_call[1].ret[1].n = Ratio(10, 1)
  /\ gen_call[1].ret[1].h = Ratio(3, 1)

(***************************************************************************)
(* C22.  A call of TickGen::next whose four volumes sum to exactly zero    *)
(* yields a tick, and the vw of that tick is the close the TickGen carried *)
(* into the call, not a quotient by the volume; the close carried is the c *)
(* of the tick yielded before, as after every tick the TickGen carries the *)
(* c of that tick.                                                         *)
(***************************************************************************)
C22_ZeroVolumeCarriesClose ==
  (gen_call # None) =>
    LET call == gen_call[1]
        total == FSum([i \in 1..Len(call.volumes) |-> call.volumes[i].v])
    IN /\ ((Len(call.volumes) = 4) /\ FEq(total, F_zero)) =>
             /\ call.ret # None
             /\ ~gen_panicked
             /\ call.ret[1].v = F_zero
             /\ call.ret[1].vw = call.self.close
             /\ call.prices = <<>>
       /\ (call.ret # None) => (tick_gen.close = call.ret[1].c)

\* a second tick of volume zero: its vw is 1, the c of the tick before it
\* (no TickGen starts with a close of 1)
C22_Witness ==
  /\ gen_call # None
  /\ gen_calls = 2
  /\ gen_call[1].ret # None
  /\ gen_call[1].ret[1].v = F_zero
  /\ gen_call[1].self.close = F_one
  /\ gen_call[1].ret[1].vw = F_one

(***************************************************************************)
(* Part 5.  Files of ticks.                                                *)
(*                                                                         *)
(* A file is the sequence of its rows and a row the sequence of its cells, *)
(* each cell a string: the framing of CSV (separators, quotes, line ends)  *)
(* is not modelled, what the csv reader does with the rows is.  The texts  *)
(* of numbers and of timestamps are those of a few values; date 0 of the   *)
(* calendar is Monday 2020-10-12 here.                                     *)
(***************************************************************************)
\* POLYGON_DATETIME
POLYGON_DATETIME == "%Y-%m-%d %H:%M:%S"

\* the fields of a Tick after t, in the order of the struct and of the columns
TickColumns == << "v", "vw", "o", "c", "h", "l", "n" >>

\* f64::from_str(cell).ok(): several texts give the same value, some give none
f64_from_str(cell) ==
  CASE cell \in { "0.0", "0" } -> Some(F_zero)
    [] cell \in { "1.0", "1", "1e0" } -> Some(F_one)
    [] cell = "2.5" -> Some(Ratio(5, 2))
    [] cell \in { "inf", "infinity" } -> Some(Inf(1))
    [] cell = "-inf" -> Some(Inf(-1))
    [] cell \in { "NaN", "nan" } -> Some(NaN)
    [] OTHER -> None

\* the text the csv writer gives an f64: the shortest decimal text that reads
\* back as the same value
f64_to_string(x) ==
  CASE x = F_zero -> "0.0"
    [] x = F_one -> "1.0"
    [] x = Ratio(5, 2) -> "2.5"
    [] x = Inf(1) -> "inf"
    [] x = Inf(-1) -> "-inf"
    [] OTHER -> "NaN"

\* NaiveDateTime::parse_from_str(cell, format).ok()
NaiveDateTime_parse_from_str(cell, format) ==
  CASE format = "%Y-%m-%d %H:%M:%S" /\ cell = "2020-10-12 14:31:00"
         -> Some(and_hms(0, 14, 31))
    [] format = "%Y-%m-%d %H:%M:%S" /\ cell = "2020-10-12 14:32:00"
         -> Some(and_hms(0, 14, 32))
    [] format = "%Y-%m-%dT%H:%M:%S" /\ cell = "2020-10-12T14:31:00"
         -> Some(and_hms(0, 14, 31))
    [] format = "%Y-%m-%dT%H:%M:%S" /\ cell = "2020-10-12T14:32:00"
         -> Some(and_hms(0, 14, 32))
    [] OTHER -> None

\* the text serde gives a NaiveDateTime: ISO 8601, with a T between date and
\* time
NaiveDateTime_to_string(datetime) ==
  IF datetime = and_hms(0, 14, 31) THEN "2020-10-12T14:31:00"
  ELSE "2020-10-12T14:32:00"

\* csv::Reader::from_reader(rdr).into_records() with result.ok() on each: the
\* reader is built with its defaults, so it takes the first row for the header
\* and yields an error for a row that has not as many cells as the first
csv_records(file) ==
  [i \in 1..(Len(file) - 1) |->
     IF Len(file[i + 1]) = Len(file[1]) THEN Some(file[i + 1]) ELSE None]

\* deserialize_ticks(rdr).filter_map(|result| result.ok()), for a file whose
\* header names the fields of Tick in their order
deserialize_ticks(file) ==
  LET records == csv_records(file)
      cell(i, k) == records[i][1][k]
      good(i) ==
        /\ records[i] # None
        /\ NaiveDateTime_parse_from_str(cell(i, 1), "%Y-%m-%dT%H:%M:%S") # None
        /\ \A k \in 1..Len(TickColumns) : f64_from_str(cell(i, k + 1)) # None
      kept == SelectSeq([i \in 1..Len(records) |-> i], good)
  IN [j \in 1..Len(kept) |->
        [f \in { "t" } \cup { TickColumns[k] : k \in 1..Len(TickColumns) } |->
           IF f = "t"
           THEN NaiveDateTime_parse_from_str(cell(kept[j], 1),
                                             "%Y-%m-%dT%H:%M:%S")[1]
           ELSE f64_from_str(cell(kept[j],
                  1 + CHOOSE k \in 1..Len(TickColumns) : TickColumns[k] = f))[1]]]

\* read_ticks
read_ticks(file, date_format) ==
  IF date_format = None THEN deserialize_ticks(file)
  ELSE
  LET records == csv_records(file)
      stamp(i) ==
        IF records[i] = None THEN None
        ELSE NaiveDateTime_parse_from_str(records[i][1][1], date_format[1])
      good(i) == stamp(i) # None
      kept == SelectSeq([i \in 1..Len(records) |-> i], good)
      number(row, k) ==
        IF k + 1 > Len(row) THEN NaN
        ELSE IF f64_from_str(row[k + 1]) = None THEN NaN
        ELSE f64_from_str(row[k + 1])[1]
  IN [j \in 1..Len(kept) |->
        [f \in { "t" } \cup { TickColumns[k] : k \in 1..Len(TickColumns) } |->
           IF f = "t" THEN stamp(kept[j])[1]
           ELSE number(records[kept[j]][1],
                       CHOOSE k \in 1..Len(TickColumns) : TickColumns[k] = f)]]

\* a variant of write_ticks that writes no header row
write_ticks_no_header(ticks) ==
  [file |-> [i \in 1..Len(ticks) |->
               << NaiveDateTime_to_string(ticks[i].t) >> \o
               [k \in 1..Len(TickColumns) |-> f64_to_string(ticks[i][TickColumns[k]])]],
   ret |-> Len(ticks)]

\* write_ticks into a writer that takes everything: the file written and the
\* count returned; the csv writer puts the header row before the first tick
write_ticks(ticks) ==
  [file |-> IF ticks = <<>> THEN <<>>
            ELSE << << "t" >> \o TickColumns >> \o
                 [i \in 1..Len(ticks) |->
                    << NaiveDateTime_to_string(ticks[i].t) >> \o
                    [k \in 1..Len(TickColumns) |->
                       f64_to_string(ticks[i][TickColumns[k]])]],
   ret |-> Len(ticks)]

(***************************************************************************)
(* The runs of a file: it comes from the data source or is written by      *)
(* write_ticks, and is then read with read_ticks, with or without a date   *)
(* format.  Reading without a date format is modelled for the files that   *)
(* write_ticks wrote.                                                      *)
(***************************************************************************)
\* every file and every sequence of ticks has at most MaxFileRows rows
MaxFileRows == 2

\* the rows of the files of the data source: a row with all cells good; one
\* with a text that is no number, an empty cell, and the texts of inf and NaN;
\* one without its last cell; one whose first cell is no timestamp
DataRows ==
  { << "2020-10-12 14:31:00", "1.0", "2.5", "1", "1.0", "2.5", "1e0", "0" >>,
    << "2020-10-12 14:32:00", "abc", "2.5", "", "1.0", "inf", "NaN", "1.0" >>,
    << "2020-10-12 14:32:00", "1.0", "2.5", "1.0", "1.0", "2.5", "1.0" >>,
    << "yesterday", "1.0", "2.5", "1.0", "1.0", "2.5", "1.0", "1.0" >> }

\* the files of the data source: empty, or a header row of 8 or of 7 columns
\* and then up to MaxFileRows rows
Files ==
  { <<>> } \cup
  UNION { { << header >> \o data : data \in [1..m -> DataRows] } :
          m \in 0..MaxFileRows,
          header \in { << "t" >> \o TickColumns,
                       << "t" >> \o SubSeq(TickColumns, 1, 6) } }

\* the ticks written: two with plain values, and one as TickGen yields it from
\* infinite prices (h infinite, vw NaN)
TicksToWrite ==
  UNION { [1..m ->
            { [t |-> and_hms(0, 14, 31), v |-> Ratio(5, 2), vw |-> F_one,
               o |-> F_one, c |-> F_one, h |-> Ratio(5, 2), l |-> F_zero,
               n |-> F_one],
              [t |-> and_hms(0, 14, 32), v |-> F_zero, vw |-> F_one,
               o |-> F_one, c |-> F_one, h |-> F_one, l |-> F_one,
               n |-> F_zero],
              [t |-> and_hms(0, 14, 32), v |-> F_one, vw |-> NaN,
               o |-> F_one, c |-> Ratio(5, 2), h |-> Inf(1), l |-> Inf(-1),
               n |-> F_one] }] : m \in 0..MaxFileRows }

\* the date_format argument of read_ticks
DateFormats == { Some(POLYGON_DATETIME), Some("%Y-%m-%dT%H:%M:%S") }

InitPolygon ==
  /\ BatcherAbsent
  /\ ExpScalerAbsent
  /\ TickScalerAbsent
  /\ CalendarAbsent
  /\ TickGenAbsent
  /\ \/ \E file \in Files : polygon_file = << file >>
     \/ polygon_file = None
  /\ polygon_src = None
  /\ polygon_call = None

\* a call of write_ticks
PolygonWrite ==
  /\ polygon_file = None
  /\ \E ticks \in TicksToWrite : \E o \in { write_ticks(ticks) } :
        /\ polygon_file' = << o.file >>
        /\ polygon_src' = << ticks >>
        /\ polygon_call' = << [op |-> "write_ticks", date_format |-> None,
                               ret |-> o.ret] >>
  /\ UNCHANGED << batcher_vars, exp_vars, tick_scaler_vars, calendar_vars,
                  tick_gen_vars >>

\* a call of read_ticks
PolygonRead ==
  /\ polygon_file # None
  /\ \E date_format \in DateFormats \cup { None } :
        /\ (date_format = None) => (polygon_src # None)
        /\ polygon_call' = << [op |-> "read_ticks", date_format |-> date_format,
                               ret |-> read_ticks(polygon_file[1], date_format)] >>
  /\ UNCHANGED << polygon_file, polygon_src >>
  /\ UNCHANGED << batcher_vars, exp_vars, tick_scaler_vars, calendar_vars,
                  tick_gen_vars >>

NextPolygon == PolygonWrite \/ PolygonRead

SpecPolygon == InitPolygon /\ [][NextPolygon]_vars

(***************************************************************************)
(* C23.  As claimed: read_ticks with a date format returns one tick for    *)
(* every row whose first cell parses as a timestamp, in the order of the   *)
(* rows; each field of the tick is the number its cell parses to, and NaN  *)
(* when the cell does not parse or the row has no such cell.               *)
(***************************************************************************)
C23_ReadKeepsRows ==
  ((polygon_call # None) /\ (polygon_call[1].op = "read_ticks")
     /\ (polygon_call[1].date_format # None)) =>
    LET file == polygon_file[1]
        format == polygon_call[1].date_format[1]
        parses(i) == NaiveDateTime_parse_from_str(file[i][1], format) # None
        kept == SelectSeq([i \in 1..Len(file) |-> i], parses)
        ret == polygon_call[1].ret
    IN /\ Len(ret) = Len(kept)
       /\ \A j \in 1..Len(kept) :
            LET row == file[kept[j]]
            IN /\ Len(ret) >= j
               /\ ret[j].t = NaiveDateTime_parse_from_str(row[1], format)[1]
               /\ \A k \in 1..Len(TickColumns) :
                    ret[j][TickColumns[k]] =
                      IF k + 1 > Len(row) THEN NaN
                      ELSE IF f64_from_str(row[k + 1]) = None THEN NaN
                      ELSE f64_from_str(row[k + 1])[1]

C25_SeededByFirstTick ==
  (tick_scaler # None /\ tick_call.op = "first_tick") =>
    /\ tick_scaler.t = tick_call.tick.t
    /\ \A f \in TickFields :
          /\ tick_scaler[f].average = tick_call.tick[f]
          /\ tick_scaler[f].range = F_zero

\* a scaler made from a tick with seven different finite fields
C25_Witness ==
  /\ tick_scaler # None
  /\ tick_call.op = "first_tick"
  /\ tick_call.tick = CleanTick(0, 20)
  /\ tick_scaler.o.average = Ratio(20, 1)
  /\ tick_scaler.vw.average = Ratio(41, 2)
  /\ tick_scaler.n.range = F_zero


(***************************************************************************)
(* C26. After the clock advance of every row in which some stream still    *)
(* has unconsumed ticks, curr_t is the least next timestamp over all the   *)
(* streams that are not exhausted (not only over the streams advanced in   *)
(* that row), and no unconsumed tick has a timestamp smaller than curr_t.  *)
(* Stated over streams with non-decreasing timestamps.                     *)
(***************************************************************************)
WaitingAll(r) ==
  { Head(out_from[r][i]).t : i \in { k \in Streams : out_from[r][k] # <<>> } }

C26_ClockIsNearest ==
  (CallRan /\ AllNonDecreasing(entry)) =>
    \A r \in Rows :
       ~Exhausted(out_from[r]) =>
          /\ out_t[r] = SetMin(WaitingAll(r))
          /\ \A i \in Streams : \A j \in 1..Len(out_from[r][i]) :
                out_from[r][i][j].t >= out_t[r]


(***************************************************************************)
(* C27. Every input row is laid out as A = additional_inputs auxiliary     *)
(* values, then the values of the time function, then the 7-field slot of  *)
(* stream 0, stream 1, ..., stream K-1 in index order; every output row is *)
(* the 2-field slot of stream 0 .. K-1 in the same order; a stream's slot  *)
(* is at the same position in every row and in every call, whether it      *)
(* holds a tick or zeros.                                                  *)
(***************************************************************************)
\* the values v[a + 1 .. a + n] of a buffer
Part(v, a, n) == Slice(v, a + 1, a + n)

\* what the slot of a stream holds in the inputs and in the outputs, read
\* from the stream's next tick and the clock
InHolds(ticks, t) ==
  IF HeadAt(ticks, t) THEN push_tick(Head(ticks)) ELSE Zeros(7)

OutHolds(ticks, t) ==
  IF HeadAt(ticks, t) THEN push_pred(pred(Head(ticks))) ELSE Zeros(2)

C27_RowLayout ==
  CallRan =>
    LET A == additional_inputs
        D == time_width
        K == stocks
    IN /\ Len(input) = rows * (A + D + 7 * K)
       /\ Len(output) = rows * 2 * K
       /\ \A r \in Rows :
            LET at == (r - 1) * (A + D + 7 * K)
                out_at == (r - 1) * 2 * K
            IN /\ Part(input, at + A, D) = time_func(D, time_args[r])
               /\ \A i \in Streams :
                    /\ Part(input, at + A + D + 7 * (i - 1), 7)
                         = InHolds(scan_from[r][i], time_args[r])
                    /\ Part(output, out_at + 2 * (i - 1), 2)
                         = OutHolds(out_from[r][i], out_t[r])

\* a second or later call of two rows or more over two streams, with one
\* auxiliary value and one time value per row: in one row the first stream's
\* slot holds a tick and the second stream's slot holds zeros, and in another
\* row the first stream's slot holds zeros
C27_Witness ==
  /\ calls >= 2
  /\ result.kind = "Some"
  /\ stocks = 2 /\ additional_inputs = 1 /\ time_width = 1
  /\ Len(out_t) >= 2
  /\ \E r \in Rows :
       /\ HeadAt(scan_from[r][1], time_args[r])
       /\ Part(input, (r - 1) * 16 + 2, 7) = push_tick(Head(scan_from[r][1]))
       /\ Part(input, (r - 1) * 16 + 9, 7) = Zeros(7)
  /\ \E r \in Rows : Part(input, (r - 1) * 16 + 2, 7) = Zeros(7)


(***************************************************************************)
(* C28. For every row exactly one element is pulled from the auxiliary     *)
(* iterator (if any is left) and exactly A = additional_inputs values are  *)
(* written for it: the first min(len, A) values of the element followed by *)
(* zeros up to A; when the auxiliary iterator is exhausted, A zeros are    *)
(* written.                                                                *)
(***************************************************************************)
\* the elements the auxiliary iterator of the last call had yielded before
\* row r
PulledBefore(r) ==
  IF r - 1 < Len(additional_arg) THEN r - 1 ELSE Len(additional_arg)

C28_AuxiliaryValues ==
  CallRan =>
    LET A == additional_inputs
    IN /\ additional
            = SubSeq(additional_arg, PulledBefore(Len(out_t) + 1) + 1,
                     Len(additional_arg))
       /\ \A r \in Rows :
            LET at == (r - 1) * RowWidth
            IN Part(input, at, A) =
                 [k \in 1..A |->
                    IF r <= Len(additional_arg) /\ k <= Len(additional_arg[r])
                    THEN additional_arg[r][k] ELSE 0]

\* a call of three rows with one auxiliary value per row over an iterator of
\* three elements: a slice of two values is cut to its first value, a slice
\* of one value is written whole, an empty slice gives a zero, and the
\* iterator is left exhausted
C28_Witness ==
  /\ CallRan
  /\ additional_inputs = 1
  /\ Len(out_t) = 3
  /\ additional_arg = << <<91, 92>>, <<93>>, <<>> >>
  /\ additional = <<>>
  /\ RowWidth > 1
  /\ Part(input, 0, 1) = <<91>>
  /\ Part(input, RowWidth, 1) = <<93>>
  /\ Part(input, 2 * RowWidth, 1) = <<0>>


(***************************************************************************)
(* C29. For a scaler started with range 0 and range_decay in (0, 1]:       *)
(* after any sequence of update calls range >= 0, and each single update   *)
(* changes range to a value not smaller than range * range_decay (range    *)
(* shrinks by at most the geometric decay of one step).                    *)
(***************************************************************************)
C29_RangeDecaysGeometrically ==
  exp_scaler # None =>
     /\ FLe(F_zero, exp_scaler.range)
     /\ exp_call.op = "update" =>
          FLe(FMul(exp_call.self.range, exp_call.self.range_decay),
              exp_scaler.range)

\* a second update with a finite value as far from the average as the range
\* allows or nearer: a range above zero is halved, no more
C29_Witness ==
  /\ exp_scaler # None
  /\ exp_call.op = "update"
  /\ exp_updates = 2
  /\ is_finite(exp_call.val)
  /\ exp_call.self.range_decay = Ratio(1, 2)
  /\ FLt(F_zero, exp_call.self.range)
  /\ is_finite(exp_call.self.range)
  /\ exp_scaler.range = FMul(exp_call.self.range, Ratio(1, 2))


(***************************************************************************)
(* C30. TickExpScaler::update(tick) updates each of the seven field        *)
(* scalers exactly once, each with its own field of the tick and with the  *)
(* same elapsed = tick.t - last-seen t, and then the last-seen t equals    *)
(* tick.t; a non-finite field leaves only that field's scaler unchanged    *)
(* while the other six scalers and t are still updated.                    *)
(***************************************************************************)
C30_UpdateFeedsEachField ==
  (tick_scaler # None /\ tick_call.op = "update") =>
     LET self == tick_call.self
         tick == tick_call.tick
         elapsed == tick.t - self.t
     IN /\ tick_scaler.t = tick.t
        /\ \A f \in TickFields :
             /\ tick_scaler[f] = ExpScaler_update(self[f], tick[f], elapsed)
             /\ ~is_finite(tick[f]) => tick_scaler[f] = self[f]
             /\ tick_scaler[f].average_decay = self[f].average_decay
             /\ tick_scaler[f].range_decay = self[f].range_decay

\* a second update, two seconds on, with a tick whose volume-weighted price
\* alone is NaN: that scaler is as it was, each of the other six has moved,
\* and so has the timestamp
C30_Witness ==
  /\ tick_scaler # None
  /\ tick_call.op = "update"
  /\ tick_calls = 2
  /\ tick_call.tick.t = tick_call.self.t + 2
  /\ tick_call.tick.vw = NaN
  /\ \A f \in TickFields \ {"vw"} : is_finite(tick_call.tick[f])
  /\ tick_scaler.vw = tick_call.self.vw
  /\ \A f \in TickFields \ {"vw"} :
        /\ tick_scaler[f].average # tick_call.self[f].average
        /\ tick_scaler[f].range # tick_call.self[f].range
  /\ tick_scaler.t = tick_call.tick.t


(***************************************************************************)
(* C31. A TickGen driven by a finite time generator of n >= 1 timestamps,  *)
(* none earlier than the one before it, yields exactly n - 1 ticks and     *)
(* then returns None on every further call; driven by the trading minutes  *)
(* of one trading day it ends with its last tick stamped at session close  *)
(* (21:00 UTC).                                                            *)
(***************************************************************************)
\* no timestamp of the generator is earlier than the one before it
NoStepBack(time_gen) ==
  \A i \in 1..(Len(time_gen) - 1) : time_gen[i] <= time_gen[i + 1]

\* the ticks a TickGen over n timestamps has yielded after k calls
YieldedAfter(n, k) == IF k < n - 1 THEN k ELSE n - 1

\* 21:00 of the Monday, as a timestamp
SessionClose == timestamp(and_hms(0, 21, 0))

C31_YieldsAllButOne ==
  (tick_gen # None /\ Len(gen_from[1]) >= 1 /\ NoStepBack(gen_from[1])) =>
     LET n == Len(gen_from[1])
     IN /\ ~gen_panicked
        /\ Len(gen_stamps) = YieldedAfter(n, gen_calls)
        /\ gen_calls >= 1 => (gen_call[1].ret = None <=> gen_calls > n - 1)
        /\ (gen_from[1] = MondayGen /\ gen_calls >= n - 1) =>
              gen_stamps[Len(gen_stamps)] = SessionClose

(***************************************************************************)
(* C31 (as claimed).  A TickGen driven by a finite time generator of       *)
(* n >= 1 timestamps yields exactly n - 1 ticks and then returns None on   *)
(* every further call, whatever the order of the timestamps.               *)
(***************************************************************************)
C31_Original ==
  (tick_gen # None /\ Len(gen_from[1]) >= 1) =>
     /\ ~gen_panicked
     /\ Len(gen_stamps) = YieldedAfter(Len(gen_from[1]), gen_calls)

\* the TickGen over the minutes of the Monday has yielded its 390 ticks, the
\* last one stamped 21:00, and two calls more have returned None
C31_Witness ==
  /\ tick_gen # None
  /\ gen_from[1] = MondayGen
  /\ Len(gen_from[1]) = 391
  /\ gen_calls = 392
  /\ Len(gen_stamps) = 390
  /\ gen_stamps[390] = SessionClose
  /\ gen_call[1].ret = None
  /\ gen_call[1].self.time_gen = <<>>


(***************************************************************************)
(* C32. No value produced by the generator pairs a non-zero volume with a  *)
(* zero trade count: VolumeGen::next_after returns v = 0 whenever its      *)
(* rounded trade count n is 0, and every tick yielded by TickGen has v = 0 *)
(* if and only if n = 0.                                                   *)
(***************************************************************************)
C32_NoVolumeWithoutTrades ==
  (gen_call # None) =>
     /\ \A i \in 1..Len(gen_call[1].volumes) :
           FEq(gen_call[1].volumes[i].n, F_zero)
              => FEq(gen_call[1].volumes[i].v, F_zero)
     /\ gen_call[1].ret # None =>
           (FEq(gen_call[1].ret[1].v, F_zero) <=> FEq(gen_call[1].ret[1].n, F_zero))

\* a tick with volume and trades, one of whose four samples has a trade count
\* that rounds to zero and so no volume, and another trades but no volume
C32_Witness ==
  /\ gen_call # None
  /\ gen_call[1].ret # None
  /\ FLt(F_zero, gen_call[1].ret[1].v)
  /\ FLt(F_zero, gen_call[1].ret[1].n)
  /\ gen_call[1].afters[1] = F_one
  /\ gen_call[1].volumes[1] = [v |-> F_zero, n |-> F_zero]
  /\ \E i \in 1..4 : /\ FEq(gen_call[1].volumes[i].v, F_zero)
                     /\ FLt(F_zero, gen_call[1].volumes[i].n)


(***************************************************************************)
(* C33. For every StockLSTMDesc, the input width that build configures for *)
(* the model's LSTM layer equals the per-row input feature count the       *)
(* batcher produces for the same configuration (additional_inputs +        *)
(* date_inputs + 7 * stocks), and the linear layer's output width equals   *)
(* the batcher's per-row output count (2 * stocks).  Read off the tensors  *)
(* of a call that returned Some.                                           *)
(***************************************************************************)
\* the model built for the configuration of the run
BuiltModel ==
  StockLSTMDesc_build([additional_inputs |-> additional_inputs,
                       date_inputs |-> date_inputs, stocks |-> stocks])

C33_WidthsAgree ==
  result.kind = "Some" =>
     /\ BuiltModel.lstm_layer.inputs = result.input.shape[3]
     /\ BuiltModel.lstm_layer.inputs = additional_inputs + date_inputs + 7 * stocks
     /\ BuiltModel.linear_layer.outputs = result.output.shape[3]
     /\ BuiltModel.linear_layer.outputs = 2 * stocks


(***************************************************************************)
(* C34. Every make_batches call that returns Some with                     *)
(* batch_size * sequence_length >= 1 consumes at least one tick from at    *)
(* least one stream (its first row always hits the stream holding the      *)
(* minimum timestamp); hence in a loop that calls make_batches on the same *)
(* finite streams until it returns None, at most as many calls return Some *)
(* as there are ticks, and the loop ends with one call more, the call that *)
(* returns None.                                                           *)
(***************************************************************************)
RECURSIVE TicksIn(_)
TicksIn(its) == IF its = <<>> THEN 0 ELSE Len(Head(its)) + TicksIn(Tail(its))

C34_EveryCallConsumes ==
  (first_entry # None /\ result.kind = "Some" /\ rows >= 1) =>
     /\ TicksIn(tick_iterators) < TicksIn(entry)
     /\ \E i \in Streams :
          /\ HeadAt(entry[i], time_args[1])
          /\ \A k \in Streams :
                entry[k] # <<>> => Head(entry[i]).t <= Head(entry[k]).t
          /\ tick_iterators[i] # entry[i]
          /\ InSlot(1, i) = push_tick(Head(entry[i]))
     /\ calls <= TicksIn(first_entry[1]) - TicksIn(tick_iterators)
     /\ calls <= TicksIn(first_entry[1])

(***************************************************************************)
(* C34 (as claimed).  A loop that calls make_batches, with                 *)
(* batch_size * sequence_length >= 1, on the same finite streams until it  *)
(* returns None terminates after at most as many calls as there are ticks: *)
(* a call whose number has reached the number of ticks does not return     *)
(* Some.                                                                   *)
(***************************************************************************)
C34_Original ==
  (first_entry # None /\ rows >= 1 /\ calls >= 1
     /\ calls >= TicksIn(first_entry[1])) =>
     result.kind # "Some"

\* the loop has gone round once per tick: four calls of one row each over two
\* streams of four ticks in all have returned Some, each has consumed one
\* tick, and nothing is left
C34_Witness ==
  /\ result.kind = "Some"
  /\ rows = 1
  /\ stocks = 2
  /\ calls = 4
  /\ first_entry # None
  /\ TicksIn(first_entry[1]) = 4
  /\ first_entry[1][1] # <<>> /\ first_entry[1][2] # <<>>
  /\ TicksIn(entry) = 1
  /\ TicksIn(tick_iterators) = 0


(***************************************************************************)
(* C35. Within one call, for every stream and every row r that is not the  *)
(* last: the output slot of row r is written from a tick x (rather than    *)
(* zero-filled) if and only if the input slot of row r + 1 for the same    *)
(* stream is written from that same tick x; each row's target is exactly   *)
(* the next row's observation.                                             *)
(***************************************************************************)
C35_TargetIsNextObservation ==
  CallRan =>
    \A r \in Rows : r < Len(out_t) =>
       \A i \in Streams :
          LET ticks == out_from[r][i]
          IN /\ (OutSlot(r, i) # Zeros(2)) <=> (InSlot(r + 1, i) # Zeros(7))
             /\ IF HeadAt(ticks, out_t[r])
                THEN /\ OutSlot(r, i) = push_pred(pred(Head(ticks)))
                     /\ InSlot(r + 1, i) = push_tick(Head(ticks))
                ELSE /\ OutSlot(r, i) = Zeros(2)
                     /\ InSlot(r + 1, i) = Zeros(7)

\* two streams, and a row before the last one: the target of the first
\* stream is written from the tick that the next row observes, while the
\* second stream, which still holds a tick, has zeros in both places
C35_Witness ==
  /\ CallRan
  /\ stocks = 2
  /\ \E r \in Rows :
       /\ r < Len(out_t)
       /\ out_from[r][1] # <<>>
       /\ out_from[r][2] # <<>>
       /\ OutSlot(r, 1) = push_pred(pred(Head(out_from[r][1])))
       /\ InSlot(r + 1, 1) = push_tick(Head(out_from[r][1]))
       /\ OutSlot(r, 2) = Zeros(2)
       /\ InSlot(r + 1, 2) = Zeros(7)


(***************************************************************************)
(* C36. Across any sequence of make_batches calls on the same cursors, for *)
(* each stream the ticks written into input rows are exactly the consumed  *)
(* prefix of that stream, in stream order, each written in exactly one     *)
(* input row; no tick is written twice and no tick is consumed without     *)
(* being written.                                                          *)
(***************************************************************************)
\* the ticks stream i has yielded since the run began
ConsumedOf(i) == Len(first_entry[1][i]) - Len(tick_iterators[i])

C36_WrittenIsConsumedPrefix ==
  first_entry # None =>
    \A i \in 1..Len(first_entry[1]) :
       /\ ConsumedOf(i) >= 0
       /\ tick_iterators[i]
            = SubSeq(first_entry[1][i], ConsumedOf(i) + 1, Len(first_entry[1][i]))
       /\ tick_slots[i]
            = [k \in 1..ConsumedOf(i) |-> push_tick(first_entry[1][i][k])]

\* after three calls of one row each over two streams: two ticks of the
\* first stream and one of the second have been consumed and written, in
\* three different calls, and the first stream still holds a tick
C36_Witness ==
  /\ calls = 3
  /\ rows = 1
  /\ result.kind = "Some"
  /\ first_entry # None
  /\ Len(first_entry[1]) = 2
  /\ Len(first_entry[1][1]) = 3
  /\ Len(tick_slots[1]) = 2
  /\ Len(tick_slots[2]) = 1
  /\ Len(tick_iterators[1]) = 1
  /\ tick_slots[1][2] = push_tick(first_entry[1][1][2])

=============================================================================
